---- MODULE Spec2Model ----
(***************************************************************************)
(* Model of the patient-report segmentation of medical-report-processor:   *)
(* DocumentSplitter.splitIntoPatientReports and the identity extraction    *)
(* it relies on (src/src/processors/DocumentSplitter.js).                  *)
(*                                                                         *)
(* JavaScript values are records [t, s]: t is the typeof-like tag and s    *)
(* the characters of a string (a sequence of one-character strings).       *)
(* Pages are catalogue entries (PageCatalogue) so that the extraction is   *)
(* computed from key/value pairs and table cells exactly as the code does. *)
(***************************************************************************)
EXTENDS Integers, Sequences, FiniteSets, TLC

\* ------------------------------------------------------------------------
\* Bounds of the model
\* ------------------------------------------------------------------------

\* Longest input page sequence drawn from the catalogue.
MaxPages == 3

\* Largest value of config.processing.maxPagesPerPatient that is explored.
MaxCap == 3

\* ------------------------------------------------------------------------
\* JavaScript values
\* ------------------------------------------------------------------------

Str(chars) == [t |-> "string", s |-> chars]

Undefined == [t |-> "undefined", s |-> <<>>]

Null == [t |-> "null", s |-> <<>>]

\* A non-zero number (truthy, not a string); s holds its digits.
Num(digits) == [t |-> "number", s |-> digits]

\* JavaScript truthiness of the values that occur in page data.
Truthy(v) ==
  \/ v.t = "string" /\ v.s # <<>>
  \/ v.t = "number"
  \/ v.t = "object"

IsString(v) == v.t = "string"

\* a || b
OrElse(a, b) == IF Truthy(a) THEN a ELSE b

\* ------------------------------------------------------------------------
\* Characters and the string functions the code calls
\* ------------------------------------------------------------------------

UpperChars ==
  << "A","B","C","D","E","F","G","H","I","J","K","L","M",
     "N","O","P","Q","R","S","T","U","V","W","X","Y","Z" >>

LowerChars ==
  << "a","b","c","d","e","f","g","h","i","j","k","l","m",
     "n","o","p","q","r","s","t","u","v","w","x","y","z" >>

DigitChars == {"0","1","2","3","4","5","6","7","8","9"}

\* \w of a JavaScript regular expression
IsWordChar(c) ==
  \/ c \in DigitChars
  \/ c = "_"
  \/ \E i \in 1..26 : c = UpperChars[i] \/ c = LowerChars[i]

\* \s of a JavaScript regular expression (the white space that occurs here)
IsSpaceChar(c) == c \in {" ", "\t", "\n"}

\* String.prototype.toLowerCase, one character
ToLowerChar(c) ==
  IF \E i \in 1..26 : c = UpperChars[i]
    THEN LowerChars[CHOOSE i \in 1..26 : c = UpperChars[i]]
    ELSE c

\* String.prototype.toLowerCase
ToLowerCase(chars) == [i \in 1..Len(chars) |-> ToLowerChar(chars[i])]

\* String.prototype.trim
Trim(chars) ==
  LET keep == {i \in 1..Len(chars) : ~IsSpaceChar(chars[i])}
  IN  IF keep = {} THEN <<>>
      ELSE LET lo == CHOOSE i \in keep : \A j \in keep : i <= j
               hi == CHOOSE i \in keep : \A j \in keep : j <= i
           IN  SubSeq(chars, lo, hi)

\* chars.replace(/[^\w\s-]/g, '')
RECURSIVE StripSpecial(_)
StripSpecial(chars) ==
  IF chars = <<>> THEN <<>>
  ELSE LET c == Head(chars)
           rest == StripSpecial(Tail(chars))
       IN  IF IsWordChar(c) \/ IsSpaceChar(c) \/ c = "-"
             THEN <<c>> \o rest
             ELSE rest

\* String.prototype.includes
Includes(chars, key) ==
  \E i \in 1..(Len(chars) - Len(key) + 1) :
    SubSeq(chars, i, i + Len(key) - 1) = key

\* cell.split(':')[1]: the text between the first and the second colon,
\* undefined when the cell holds no colon.
SplitColon1(chars) ==
  LET colons == {i \in 1..Len(chars) : chars[i] = ":"}
  IN  IF colons = {} THEN Undefined
      ELSE LET first == CHOOSE i \in colons : \A j \in colons : i <= j
               later == {i \in colons : i > first}
               stop == IF later = {} THEN Len(chars) + 1
                       ELSE CHOOSE i \in later : \A j \in later : i <= j
           IN  Str(SubSeq(chars, first + 1, stop - 1))

\* ------------------------------------------------------------------------
\* Page data (the shape TextractService.extractData returns)
\* ------------------------------------------------------------------------

\* keyValuePairs: an object mapping lowercase labels to values, or undefined.
KeyValuePairs(m) == [t |-> "object", m |-> m]

NoKeyValuePairs == [t |-> "undefined", m |-> <<>>]

\* keyValuePairs[key]
KvGet(kv, key) == IF key \in DOMAIN kv.m THEN kv.m[key] ELSE Undefined

\* An array (of tables, of rows, of cells), or a value that is not an array.
Array(items) == [t |-> "array", items |-> items]

NotArray(tag) == [t |-> tag, items |-> <<>>]

\* A table object; rows is Array(...) or NotArray("undefined").
Table(rows) == [rows |-> rows]

\* row[i] for a 0-based i; undefined past the end of the row
CellAt(row, i) ==
  IF i + 1 \in 1..Len(row.items) THEN row.items[i + 1] ELSE Undefined

\* ------------------------------------------------------------------------
\* Identity extraction
\* ------------------------------------------------------------------------

\* The patientInfo object of _extractPatientInfo before any evidence.
EmptyPatientInfo == [name |-> Null, patientId |-> Null, dob |-> Null]

\* _extractPatientInfo returning null
NoPatientInfo ==
  [t |-> "null", name |-> Null, patientId |-> Null, dob |-> Null]

\* _extractPatientInfo returning the patientInfo object
PatientInfo(info) ==
  [t |-> "object", name |-> info.name, patientId |-> info.patientId,
   dob |-> info.dob]

_cleanPatientValue(value) ==
  IF ~Truthy(value) \/ ~IsString(value) THEN Null
  ELSE Str(Trim(StripSpecial(Trim(value.s))))

\* for (const key of keys) { if (keyValuePairs[key]) { field = clean; break } }
RECURSIVE FirstKeyValue(_, _)
FirstKeyValue(kv, keys) ==
  IF keys = <<>> THEN Null
  ELSE IF Truthy(KvGet(kv, Head(keys)))
         THEN _cleanPatientValue(KvGet(kv, Head(keys)))
         ELSE FirstKeyValue(kv, Tail(keys))

kvNameKeys == << "patient name", "name", "patient", "full name" >>

kvIdKeys ==
  << "patient id", "id", "mrn", "medical record number", "patient #",
     "account" >>

kvDobKeys == << "dob", "date of birth", "birth date", "birthdate" >>

\* Lines 80-107: the key-value step.
ExtractFromKeyValuePairs(kv) ==
  IF kv.t # "object" THEN EmptyPatientInfo
  ELSE [name |-> FirstKeyValue(kv, kvNameKeys),
        patientId |-> FirstKeyValue(kv, kvIdKeys),
        dob |-> FirstKeyValue(kv, kvDobKeys)]

tableNameKeys ==
  { <<"p","a","t","i","e","n","t"," ","n","a","m","e">>,
    <<"n","a","m","e">>,
    <<"p","a","t","i","e","n","t">> }

tableIdKeys ==
  { <<"p","a","t","i","e","n","t"," ","i","d">>,
    <<"i","d">>,
    <<"m","r","n">>,
    <<"m","e","d","i","c","a","l"," ","r","e","c","o","r","d">> }

tableDobKeys ==
  { <<"d","o","b">>,
    <<"d","a","t","e"," ","o","f"," ","b","i","r","t","h">>,
    <<"b","i","r","t","h"," ","d","a","t","e">> }

\* Mutant of CheckField: the field is assigned even when it is already set
\* (no !patientInfo.name at line 170).
CheckFieldOverwrites(st, field, keys, row, index, cell) ==
  LET cellLower == ToLowerCase(cell.s)
      valueCell == OrElse(CellAt(row, index + 1), SplitColon1(cell.s))
  IN  IF st.threw THEN st
      ELSE IF ~(\E key \in keys : Includes(cellLower, key)) THEN st
      ELSE IF ~Truthy(valueCell) THEN st
      ELSE IF ~IsString(valueCell) THEN [st EXCEPT !.threw = TRUE]
      ELSE IF Trim(valueCell.s) = cellLower THEN st
      ELSE [st EXCEPT !.info[field] = _cleanPatientValue(valueCell)]

\* One of the three checks of the cell callback (lines 170-175, 178-183,
\* 186-191). st is [threw, info]; a value cell that is truthy but not a
\* string makes valueCell.trim() raise a TypeError.
CheckField(st, field, keys, row, index, cell) ==
  LET cellLower == ToLowerCase(cell.s)
      valueCell == OrElse(CellAt(row, index + 1), SplitColon1(cell.s))
  IN  IF st.threw THEN st
      ELSE IF Truthy(st.info[field]) THEN st
      ELSE IF ~(\E key \in keys : Includes(cellLower, key)) THEN st
      ELSE IF ~Truthy(valueCell) THEN st
      ELSE IF ~IsString(valueCell) THEN [st EXCEPT !.threw = TRUE]
      ELSE IF Trim(valueCell.s) = cellLower THEN st
      ELSE [st EXCEPT !.info[field] = _cleanPatientValue(valueCell)]

\* The callback of row.forEach (lines 164-192).
CellStep(st, row, index) ==
  LET cell == CellAt(row, index)
  IN  IF ~Truthy(cell) \/ ~IsString(cell) THEN st
      ELSE CheckField(
             CheckField(
               CheckField(st, "name", tableNameKeys, row, index, cell),
               "patientId", tableIdKeys, row, index, cell),
             "dob", tableDobKeys, row, index, cell)

\* row.forEach from cell index on
RECURSIVE ScanCells(_, _, _)
ScanCells(st, row, index) ==
  IF st.threw \/ index >= Len(row.items) THEN st
  ELSE ScanCells(CellStep(st, row, index), row, index + 1)

\* table.rows.forEach (lines 161-193)
RECURSIVE ScanRows(_, _)
ScanRows(st, rows) ==
  IF st.threw \/ rows = <<>> THEN st
  ELSE LET row == Head(rows)
       IN  IF row.t # "array" THEN ScanRows(st, Tail(rows))
           ELSE ScanRows(ScanCells(st, row, 0), Tail(rows))

\* tables.forEach (lines 158-194)
RECURSIVE ScanTables(_, _)
ScanTables(st, tables) ==
  IF st.threw \/ tables = <<>> THEN st
  ELSE LET table == Head(tables)
       IN  IF table.rows.t # "array" THEN ScanTables(st, Tail(tables))
           ELSE ScanTables(ScanRows(st, table.rows.items), Tail(tables))

_extractFromTables(tables, patientInfo) ==
  ScanTables([threw |-> FALSE, info |-> patientInfo], tables)

\* _extractPatientInfo as [threw, info]: threw is TRUE when the call raises,
\* info is the returned candidate (NoPatientInfo for null).
_extractPatientInfo(pageData) ==
  IF pageData.t # "object" THEN [threw |-> FALSE, info |-> NoPatientInfo]
  ELSE
    LET fromKv == ExtractFromKeyValuePairs(pageData.keyValuePairs)
        useTables ==
          /\ ~Truthy(fromKv.name) \/ ~Truthy(fromKv.patientId)
          /\ pageData.tables.t = "array"
          /\ Len(pageData.tables.items) > 0
        st == IF useTables
                THEN _extractFromTables(pageData.tables.items, fromKv)
                ELSE [threw |-> FALSE, info |-> fromKv]
    IN  IF st.threw THEN [threw |-> TRUE, info |-> NoPatientInfo]
        ELSE IF ~Truthy(st.info.name) /\ ~Truthy(st.info.patientId)
               THEN [threw |-> FALSE, info |-> NoPatientInfo]
               ELSE [threw |-> FALSE, info |-> PatientInfo(st.info)]

\* Mutant of _isDifferentPatient: the names are compared before the
\* identifiers.
IsDifferentPatientNameFirst(currentPatient, newPatient) ==
  IF currentPatient.t = "null" THEN newPatient.t # "null"
  ELSE IF newPatient.t = "null" THEN FALSE
  ELSE IF Truthy(currentPatient.name) /\ Truthy(newPatient.name)
         THEN currentPatient.name # newPatient.name
  ELSE IF Truthy(currentPatient.patientId) /\ Truthy(newPatient.patientId)
         THEN currentPatient.patientId # newPatient.patientId
  ELSE IF Truthy(currentPatient.dob) /\ Truthy(newPatient.dob)
         THEN currentPatient.dob # newPatient.dob
  ELSE FALSE

\* Mutant of _isDifferentPatient: a page without identity counts as a
\* different patient (return true at line 130).
IsDifferentPatientSplitsOnSilence(currentPatient, newPatient) ==
  IF currentPatient.t = "null" THEN newPatient.t # "null"
  ELSE IF newPatient.t = "null" THEN TRUE
  ELSE IF Truthy(currentPatient.patientId) /\ Truthy(newPatient.patientId)
         THEN currentPatient.patientId # newPatient.patientId
  ELSE IF Truthy(currentPatient.name) /\ Truthy(newPatient.name)
         THEN currentPatient.name # newPatient.name
  ELSE IF Truthy(currentPatient.dob) /\ Truthy(newPatient.dob)
         THEN currentPatient.dob # newPatient.dob
  ELSE FALSE

\* Mutant of _isDifferentPatient: the identifier test is inverted
\* (=== for !== at line 136).
IsDifferentPatientIdInverted(currentPatient, newPatient) ==
  IF currentPatient.t = "null" THEN newPatient.t # "null"
  ELSE IF newPatient.t = "null" THEN FALSE
  ELSE IF Truthy(currentPatient.patientId) /\ Truthy(newPatient.patientId)
         THEN currentPatient.patientId = newPatient.patientId
  ELSE IF Truthy(currentPatient.name) /\ Truthy(newPatient.name)
         THEN currentPatient.name # newPatient.name
  ELSE IF Truthy(currentPatient.dob) /\ Truthy(newPatient.dob)
         THEN currentPatient.dob # newPatient.dob
  ELSE FALSE

\* Mutant of _isDifferentPatient: without an anchor every page counts as a
\* new patient (return true at line 125).
IsDifferentPatientNoAnchorAlwaysNew(currentPatient, newPatient) ==
  IF currentPatient.t = "null" THEN TRUE
  ELSE IF newPatient.t = "null" THEN FALSE
  ELSE IF Truthy(currentPatient.patientId) /\ Truthy(newPatient.patientId)
         THEN currentPatient.patientId # newPatient.patientId
  ELSE IF Truthy(currentPatient.name) /\ Truthy(newPatient.name)
         THEN currentPatient.name # newPatient.name
  ELSE IF Truthy(currentPatient.dob) /\ Truthy(newPatient.dob)
         THEN currentPatient.dob # newPatient.dob
  ELSE FALSE

\* Mutant of _isDifferentPatient: without an anchor no page counts as a
\* new patient (return false at line 125).
IsDifferentPatientNoAnchorNeverNew(currentPatient, newPatient) ==
  IF currentPatient.t = "null" THEN FALSE
  ELSE IF newPatient.t = "null" THEN FALSE
  ELSE IF Truthy(currentPatient.patientId) /\ Truthy(newPatient.patientId)
         THEN currentPatient.patientId # newPatient.patientId
  ELSE IF Truthy(currentPatient.name) /\ Truthy(newPatient.name)
         THEN currentPatient.name # newPatient.name
  ELSE IF Truthy(currentPatient.dob) /\ Truthy(newPatient.dob)
         THEN currentPatient.dob # newPatient.dob
  ELSE FALSE

\* _isDifferentPatient (lines 122-151)
_isDifferentPatient(currentPatient, newPatient) ==
  IF currentPatient.t = "null" THEN newPatient.t # "null"
  ELSE IF newPatient.t = "null" THEN FALSE
  ELSE IF Truthy(currentPatient.patientId) /\ Truthy(newPatient.patientId)
         THEN currentPatient.patientId # newPatient.patientId
  ELSE IF Truthy(currentPatient.name) /\ Truthy(newPatient.name)
         THEN currentPatient.name # newPatient.name
  ELSE IF Truthy(currentPatient.dob) /\ Truthy(newPatient.dob)
         THEN currentPatient.dob # newPatient.dob
  ELSE FALSE

\* ------------------------------------------------------------------------
\* MetadataExtractor
\* ------------------------------------------------------------------------

\* this.fieldMappings: per field the labels it is looked up under, in order;
\* key is the label as a property name, chars the same label as text.
fieldMappings ==
  [ name |-> <<
      [key |-> "patient name", chars |-> <<"p","a","t","i","e","n","t"," ","n","a","m","e">>],
      [key |-> "name", chars |-> <<"n","a","m","e">>],
      [key |-> "patient", chars |-> <<"p","a","t","i","e","n","t">>],
      [key |-> "full name", chars |-> <<"f","u","l","l"," ","n","a","m","e">>],
      [key |-> "patient full name", chars |-> <<"p","a","t","i","e","n","t"," ","f","u","l","l"," ","n","a","m","e">>] >>,
    dob |-> <<
      [key |-> "dob", chars |-> <<"d","o","b">>],
      [key |-> "date of birth", chars |-> <<"d","a","t","e"," ","o","f"," ","b","i","r","t","h">>],
      [key |-> "birth date", chars |-> <<"b","i","r","t","h"," ","d","a","t","e">>],
      [key |-> "birthdate", chars |-> <<"b","i","r","t","h","d","a","t","e">>],
      [key |-> "patient dob", chars |-> <<"p","a","t","i","e","n","t"," ","d","o","b">>] >>,
    patientId |-> <<
      [key |-> "patient id", chars |-> <<"p","a","t","i","e","n","t"," ","i","d">>],
      [key |-> "id", chars |-> <<"i","d">>],
      [key |-> "patient #", chars |-> <<"p","a","t","i","e","n","t"," ","#">>],
      [key |-> "patient number", chars |-> <<"p","a","t","i","e","n","t"," ","n","u","m","b","e","r">>],
      [key |-> "mrn", chars |-> <<"m","r","n">>],
      [key |-> "medical record number", chars |-> <<"m","e","d","i","c","a","l"," ","r","e","c","o","r","d"," ","n","u","m","b","e","r">>],
      [key |-> "account", chars |-> <<"a","c","c","o","u","n","t">>],
      [key |-> "accession", chars |-> <<"a","c","c","e","s","s","i","o","n">>],
      [key |-> "medical record no", chars |-> <<"m","e","d","i","c","a","l"," ","r","e","c","o","r","d"," ","n","o">>],
      [key |-> "patient identifier", chars |-> <<"p","a","t","i","e","n","t"," ","i","d","e","n","t","i","f","i","e","r">>],
      [key |-> "chart number", chars |-> <<"c","h","a","r","t"," ","n","u","m","b","e","r">>] >> ]

\* Object.entries(this.fieldMappings): the fields in insertion order
fieldOrder == << "name", "dob", "patientId" >>

\* chars.replace(/[^\w]/g, '')
RECURSIVE StripNonWord(_)
StripNonWord(chars) ==
  IF chars = <<>> THEN <<>>
  ELSE LET c == Head(chars)
           rest == StripNonWord(Tail(chars))
       IN  IF IsWordChar(c) THEN <<c>> \o rest ELSE rest

\* /^\d+$/.test(chars)
AllDigits(chars) ==
  chars # <<>> /\ \A i \in 1..Len(chars) : chars[i] \in DigitChars

\* /\d/.test(chars)
HasDigit(chars) == \E i \in 1..Len(chars) : chars[i] \in DigitChars

\* Mutant of _cleanValue: the name is not trimmed again after stripping.
CleanValueNoSecondTrim(value, field) ==
  IF ~Truthy(value) \/ ~IsString(value) THEN Null
  ELSE LET cleaned == Trim(value.s)
       IN  IF field = "name"
             THEN LET name == StripSpecial(cleaned)
                  IN  IF Len(name) < 2 \/ AllDigits(name) THEN Null
                      ELSE Str(name)
           ELSE IF field = "dob"
             THEN IF ~HasDigit(cleaned) \/ Len(cleaned) < 6 THEN Null
                  ELSE Str(cleaned)
           ELSE IF field = "patientId"
             THEN LET id == StripNonWord(cleaned)
                  IN  IF Len(id) < 3 THEN Null ELSE Str(id)
           ELSE Str(cleaned)

\* MetadataExtractor._cleanValue (lines 98-124)
_cleanValue(value, field) ==
  IF ~Truthy(value) \/ ~IsString(value) THEN Null
  ELSE LET cleaned == Trim(value.s)
       IN  IF field = "name"
             THEN LET name == Trim(StripSpecial(cleaned))
                  IN  IF Len(name) < 2 \/ AllDigits(name) THEN Null
                      ELSE Str(name)
           ELSE IF field = "dob"
             THEN IF ~HasDigit(cleaned) \/ Len(cleaned) < 6 THEN Null
                  ELSE Str(cleaned)
           ELSE IF field = "patientId"
             THEN LET id == StripNonWord(cleaned)
                  IN  IF Len(id) < 3 THEN Null ELSE Str(id)
           ELSE Str(cleaned)

\* The metadata fields of extractMetadata before any evidence (lines 26-28).
EmptyMetadata == [name |-> Null, patientId |-> Null, dob |-> Null]

\* Mutant of MetadataFirstKeyValue: a label whose value is rejected is
\* passed over and the next label is tried.
RECURSIVE MetadataFirstValidKeyValue(_, _, _)
MetadataFirstValidKeyValue(kv, keys, field) ==
  IF keys = <<>> THEN Null
  ELSE IF Truthy(_cleanValue(KvGet(kv, Head(keys).key), field))
         THEN _cleanValue(KvGet(kv, Head(keys).key), field)
         ELSE MetadataFirstValidKeyValue(kv, Tail(keys), field)

\* The inner loop of _extractFromKeyValuePairs (lines 62-67): the field is
\* null when the loop starts, so the first label with a truthy value is
\* cleaned and the loop ends.
RECURSIVE MetadataFirstKeyValue(_, _, _)
MetadataFirstKeyValue(kv, keys, field) ==
  IF keys = <<>> THEN Null
  ELSE IF Truthy(KvGet(kv, Head(keys).key))
         THEN _cleanValue(KvGet(kv, Head(keys).key), field)
         ELSE MetadataFirstKeyValue(kv, Tail(keys), field)

\* _extractFromKeyValuePairs(keyValuePairs || {}, metadata) (lines 37, 60-69)
MetadataExtractFromKeyValuePairs(kv) ==
  IF kv.t # "object" THEN EmptyMetadata
  ELSE [f \in {"name", "patientId", "dob"} |->
          MetadataFirstKeyValue(kv, fieldMappings[f], f)]

\* cell.split(' ').slice(-1)[0]: the text after the last space
SplitSpaceLast(chars) ==
  LET spaces == {i \in 1..Len(chars) : chars[i] = " "}
  IN  IF spaces = {} THEN Str(chars)
      ELSE LET last == CHOOSE i \in spaces : \A j \in spaces : j <= i
           IN  Str(SubSeq(chars, last + 1, Len(chars)))

\* The body of the loop over the fields in the cell callback (lines 83-92).
\* st is [threw, info]; a value cell that is truthy but not a string makes
\* valueCell.trim() raise a TypeError.
MetadataCheckField(st, field, row, index, cell) ==
  LET cellLower == ToLowerCase(cell.s)
      keys == fieldMappings[field]
      valueCell == OrElse(OrElse(CellAt(row, index + 1), SplitColon1(cell.s)),
                          SplitSpaceLast(cell.s))
  IN  IF st.threw THEN st
      ELSE IF Truthy(st.info[field]) THEN st
      ELSE IF ~(\E k \in 1..Len(keys) : Includes(cellLower, keys[k].chars))
             THEN st
      ELSE IF ~Truthy(valueCell) THEN st
      ELSE IF ~IsString(valueCell) THEN [st EXCEPT !.threw = TRUE]
      ELSE IF Trim(valueCell.s) = cellLower THEN st
      ELSE [st EXCEPT !.info[field] = _cleanValue(valueCell, field)]

\* The callback of row.forEach (lines 78-93).
MetadataCellStep(st, row, index) ==
  LET cell == CellAt(row, index)
  IN  IF ~Truthy(cell) \/ ~IsString(cell) THEN st
      ELSE MetadataCheckField(
             MetadataCheckField(
               MetadataCheckField(st, fieldOrder[1], row, index, cell),
               fieldOrder[2], row, index, cell),
             fieldOrder[3], row, index, cell)

\* _hasIncompleteData (lines 126-128)
_hasIncompleteData(metadata) ==
  ~Truthy(metadata.name) \/ ~Truthy(metadata.dob) \/ ~Truthy(metadata.patientId)

\* Mutant of _calculateCompleteness: the date of birth is not counted.
CalculateCompletenessNoDob(metadata) ==
  [num |-> Cardinality({f \in {"name", "patientId"} :
                          Truthy(metadata[f]) /\ Len(metadata[f].s) > 0}),
   den |-> 3]

\* _calculateCompleteness (lines 130-134): the fraction completed / 3 as
\* numerator and denominator.
_calculateCompleteness(metadata) ==
  [num |-> Cardinality({f \in {"name", "dob", "patientId"} :
                          Truthy(metadata[f]) /\ Len(metadata[f].s) > 0}),
   den |-> 3]

\* ------------------------------------------------------------------------
\* The pages the inputs are drawn from
\* ------------------------------------------------------------------------

sAnnLee == <<"A","n","n"," ","L","e","e">>

sBobRay == <<"B","o","b"," ","R","a","y">>

sIdA == <<"A","-","1","0","0">>

sIdB == <<"B","-","2","0","0">>

sIdC == <<"C","-","3","0","0">>

sIdD == <<"D","-","4","0","0">>

sPatientIdLabel == <<"P","a","t","i","e","n","t"," ","I","D">>

sPatientNameLabel == <<"P","a","t","i","e","n","t"," ","N","a","m","e">>

sNameColonAnnLee == <<"N","a","m","e",":"," ","A","n","n"," ","L","e","e">>

Page(kv, tables) == [t |-> "object", keyValuePairs |-> kv, tables |-> tables]

\* Pages by name. Each is a page as TextractService could hand it over, or
\* as a caller of the splitter could build it.
PageCatalogue ==
  [ \* no key/value pair, no table
    blank |-> Page(KeyValuePairs(<<>>), Array(<<>>)),
    \* the field map and the tables are absent
    noFields |-> Page(NoKeyValuePairs, NotArray("undefined")),
    idA |-> Page(KeyValuePairs(("patient id" :> Str(sIdA))
                                 @@ ("patient name" :> Str(sAnnLee))),
                 Array(<<>>)),
    idB |-> Page(KeyValuePairs(("mrn" :> Str(sIdB)) @@ ("name" :> Str(sAnnLee))),
                 Array(<<>>)),
    idC |-> Page(KeyValuePairs("id" :> Str(sIdC)), Array(<<>>)),
    idD |-> Page(KeyValuePairs("account" :> Str(sIdD)), Array(<<>>)),
    nameAnn |-> Page(KeyValuePairs("patient name" :> Str(sAnnLee)),
                     Array(<<>>)),
    nameBob |-> Page(KeyValuePairs("patient" :> Str(sBobRay)), Array(<<>>)),
    \* the identifier is only punctuation: it cleans to the empty string
    idHash |-> Page(KeyValuePairs(("patient id" :> Str(<<"#">>))
                                    @@ ("patient name" :> Str(sAnnLee))),
                    Array(<<>>)),
    \* the identifier of idA, found in a table (the label "Patient ID"
    \* contains the name key "patient" too)
    tableA |-> Page(KeyValuePairs(<<>>),
                    Array(<< Table(Array(<<
                      Array(<< Str(sPatientIdLabel), Str(sIdA) >>),
                      Array(<< Str(sNameColonAnnLee) >>) >>)) >>)),
    \* a table without rows, a row that is not an array, empty and
    \* non-string cells, an empty cell after a label cell
    malformed |-> Page(KeyValuePairs(<<>>),
                       Array(<< Table(NotArray("undefined")),
                                Table(Array(<<
                                  NotArray("string"),
                                  Array(<< Str(<<>>), Num(<<"4","2">>),
                                           Null, Str(sPatientNameLabel),
                                           Str(<<>>) >>) >>)) >>)),
    \* a number directly after a label cell
    numAfterLabel |-> Page(KeyValuePairs(<<>>),
                           Array(<< Table(Array(<<
                             Array(<< Str(sPatientNameLabel),
                                      Num(<<"4","2">>) >>) >>)) >>)) ]

\* The pages the bounded inputs are built from.
InputDocs ==
  { "blank", "noFields", "idA", "idB", "nameAnn", "nameBob", "idHash",
    "tableA", "malformed", "numAfterLabel" }

\* The documented example: 10 pages, four patients on pages 0-2, 3-4, 5-7
\* and 8-9.
ReadmeDocs ==
  << "idA", "idA", "idA", "idB", "idB", "idC", "idC", "idC", "idD", "idD" >>

\* _extractPatientInfo of every catalogue page, computed once.
ExtractionOf == [d \in DOMAIN PageCatalogue |-> _extractPatientInfo(PageCatalogue[d])]

\* The candidate a page yields (NoPatientInfo for none).
CandidateOf(page) == ExtractionOf[page.doc].info

\* Whether _extractPatientInfo raises on the page.
ExtractionThrows(page) == ExtractionOf[page.doc].threw

\* ------------------------------------------------------------------------
\* splitIntoPatientReports as a state machine
\* ------------------------------------------------------------------------

VARIABLES
  pageDataArray,       \* the argument: [t, items], items the pages [index, doc]
  maxPagesPerPatient,  \* this.maxPagesPerPatient
  pc,                  \* "call", "identity", "valve", "finish", "validate",
                       \* "done" (returned) or "threw" (raised)
  index,               \* the loop's index: the page being processed, from 0
  reports,             \* reports
  current,             \* current
  currentPatientInfo,  \* currentPatientInfo (NoPatientInfo for null)
  branch,              \* what lines 26-35 did for the last page processed
  forcedInfo,          \* the anchor the latest forced split forgot (line 44)
  result,              \* the returned reports
  error                \* the message of the error raised, "none" if none

\* One page under identity extraction (DocumentSplitter._extractPatientInfo or
\* MetadataExtractor.extractMetadata), cell by cell.
VARIABLES
  xwho,        \* "splitter" or "metadata": whose extraction runs
  xpage,       \* pageData
  xpc,         \* "start", "gate", "scan", "return", "done" or "threw"
  xcur,        \* the table cell the scan is at, an index into CellVisits
  xinfo,       \* patientInfo / metadata: [name, patientId, dob]
  xconsulted,  \* whether the tables were handed to _extractFromTables
  xresult      \* what the call returned

\* One call of a function or constructor with given arguments.
VARIABLES
  call,        \* [fn, ...]: the function and its arguments
  ret          \* what the call returned, or that it raised

\* Two segmentation runs on one splitter instance.
VARIABLES
  instance,    \* the splitter's fields: maxPagesPerPatient, patientIndicatorKeys
  runs         \* per run: its argument and its local variables

\* Two splitters with the same cap, their indicator keys and one input.
VARIABLES
  splitters,   \* per splitter: maxPagesPerPatient, patientIndicatorKeys
  keyCall,     \* the last call of setPatientIndicatorKeys and how it ended
  keyInput,    \* the pageDataArray both splitters are given
  keyRuns      \* per splitter: how its call of splitIntoPatientReports ended

splitVars ==
  << pageDataArray, maxPagesPerPatient, pc, index, reports, current,
     currentPatientInfo, branch, forcedInfo, result, error >>

extractVars == << xwho, xpage, xpc, xcur, xinfo, xconsulted, xresult >>

pureVars == << call, ret >>

runVars == << instance, runs >>

keyVars == << splitters, keyCall, keyInput, keyRuns >>

vars == << splitVars, extractVars, pureVars, runVars, keyVars >>

\* No pair of splitters is under comparison.
KeysIdle ==
  /\ splitters = "idle"
  /\ keyCall = "idle"
  /\ keyInput = "idle"
  /\ keyRuns = "idle"

\* No page is under extraction.
ExtractIdle ==
  /\ xwho = "idle"
  /\ xpage = "idle"
  /\ xpc = "idle"
  /\ xcur = 0
  /\ xinfo = "idle"
  /\ xconsulted = FALSE
  /\ xresult = "idle"

\* No single call is under way.
PureIdle == call = "idle" /\ ret = "idle"

\* No pair of runs is under way.
RunsIdle == instance = "idle" /\ runs = "idle"

\* No run of splitIntoPatientReports is under way.
SplitIdle ==
  /\ pageDataArray = "idle"
  /\ maxPagesPerPatient = 0
  /\ pc = "idle"
  /\ index = 0
  /\ reports = <<>>
  /\ current = <<>>
  /\ currentPatientInfo = "idle"
  /\ branch = "idle"
  /\ forcedInfo = "idle"
  /\ result = <<>>
  /\ error = "idle"

\* The pages of a document: page i carries index i, as _extractPageData
\* numbers them.
PagesOf(docs) == [i \in 1..Len(docs) |-> [index |-> i - 1, doc |-> docs[i]]]

\* All sequences over S of length n
RECURSIVE SeqsOfLen(_, _)
SeqsOfLen(S, n) ==
  IF n = 0 THEN {<<>>}
  ELSE {Append(q, x) : q \in SeqsOfLen(S, n - 1), x \in S}

InputSeqs == UNION {SeqsOfLen(InputDocs, n) : n \in 0..MaxPages}

ReadmeMaxPages == 10

\* Longer inputs in which pages follow a forced split at a cap of 2.
AfterForcedSplitDocs ==
  { << "blank", "blank", "blank", "idA" >>,
    << "idA", "idA", "blank", "idB" >>,
    << "idA", "idA", "blank", "idA" >>,
    << "idA", "idA", "idA", "idB", "idB" >> }

Init ==
  /\ \/ /\ \E docs \in InputSeqs : pageDataArray = Array(PagesOf(docs))
        /\ maxPagesPerPatient \in 1..MaxCap
     \/ /\ pageDataArray = NotArray("undefined")
        /\ maxPagesPerPatient \in 1..MaxCap
     \/ /\ pageDataArray = Array(PagesOf(ReadmeDocs))
        /\ maxPagesPerPatient = ReadmeMaxPages
     \/ /\ \E docs \in AfterForcedSplitDocs :
             pageDataArray = Array(PagesOf(docs))
        /\ maxPagesPerPatient = 2
  /\ pc = "call"
  /\ index = 0
  /\ reports = <<>>
  /\ current = <<>>
  /\ currentPatientInfo = NoPatientInfo
  /\ branch = "none"
  /\ forcedInfo = NoPatientInfo
  /\ result = <<>>
  /\ error = "none"
  /\ ExtractIdle
  /\ PureIdle
  /\ RunsIdle
  /\ KeysIdle

\* Mutant of HasPatientData: only the last page is looked at.
HasPatientDataOfLastPage(pages) ==
  pages # <<>> /\ CandidateOf(pages[Len(pages)]).t # "null"

\* Mutant of HasPatientData: every group is said to have patient data.
HasPatientDataAlways(pages) == TRUE

\* pages.some(page => this._extractPatientInfo(page) !== null)
HasPatientData(pages) ==
  \E i \in 1..Len(pages) : CandidateOf(pages[i]).t # "null"

\* Mutant of _finalizeReport: the report index is one too high
\* (reportIndex + 1).
FinalizeReportIndexFromOne(pages, reportIndex) ==
  [reportIndex |-> reportIndex + 1,
   pages |-> pages,
   pageCount |-> Len(pages),
   firstPageIndex |-> IF pages = <<>> THEN 0 ELSE pages[1].index,
   lastPageIndex |-> IF pages = <<>> THEN 0 ELSE pages[Len(pages)].index,
   hasPatientData |-> \E i \in 1..Len(pages) : CandidateOf(pages[i]).t # "null"]

\* Mutant of _finalizeReport: the group loses its last page
\* (pages.slice(0, -1)).
FinalizeReportDropsLastPage(pages, reportIndex) ==
  LET kept == SubSeq(pages, 1, Len(pages) - 1)
  IN  [reportIndex |-> reportIndex,
       pages |-> kept,
       pageCount |-> Len(kept),
       firstPageIndex |-> IF kept = <<>> THEN 0 ELSE kept[1].index,
       lastPageIndex |-> IF kept = <<>> THEN 0 ELSE kept[Len(kept)].index,
       hasPatientData |-> HasPatientData(kept)]

\* _finalizeReport (createdAt, the wall-clock time, is left out)
_finalizeReport(pages, reportIndex) ==
  [reportIndex |-> reportIndex,
   pages |-> pages,
   pageCount |-> Len(pages),
   firstPageIndex |-> IF pages = <<>> THEN 0 ELSE pages[1].index,
   lastPageIndex |-> IF pages = <<>> THEN 0 ELSE pages[Len(pages)].index,
   hasPatientData |-> HasPatientData(pages)]

\* Mutant of ValidReports: groups of a single page are dropped too
\* (length > 1 for length > 0).
RECURSIVE ValidReportsDropsSinglePage(_)
ValidReportsDropsSinglePage(rs) ==
  IF rs = <<>> THEN <<>>
  ELSE IF Len(Head(rs).pages) <= 1 THEN ValidReportsDropsSinglePage(Tail(rs))
  ELSE <<Head(rs)>> \o ValidReportsDropsSinglePage(Tail(rs))

\* reports.filter(report => report.pages && report.pages.length > 0)
RECURSIVE ValidReports(_)
ValidReports(rs) ==
  IF rs = <<>> THEN <<>>
  ELSE IF Len(Head(rs).pages) = 0 THEN ValidReports(Tail(rs))
  ELSE <<Head(rs)>> \o ValidReports(Tail(rs))

\* Mutant of NoPageData: the length test is missing.
NoPageDataMissingOnly(arr) == arr.t # "array"

\* Line 13: !pageDataArray || pageDataArray.length === 0
NoPageData(arr) == arr.t # "array" \/ Len(arr.items) = 0

\* Mutant of ReachedCap: the group is closed one page early
\* (>= this.maxPagesPerPatient - 1).
ReachedCapOneEarly(pages, cap) == Len(pages) >= cap - 1

\* Mutant of ReachedCap: the safety check never fires.
ReachedCapNever(pages, cap) == FALSE

\* Mutant of ReachedCap: > in place of >=
ReachedCapStrict(pages, cap) == Len(pages) > cap

\* Line 40: current.length >= this.maxPagesPerPatient
ReachedCap(pages, cap) == Len(pages) >= cap

\* Mutant of AnchorAfterForcedSplit: the anchor is carried forward.
AnchorKeptAfterForcedSplit(info) == info

\* Line 44: the anchor after a forced split (the anchor before it is given)
AnchorAfterForcedSplit(info) == NoPatientInfo

\* Lines 12-19: the argument check and the run's local state; the loop of
\* line 21 is entered only if there is a page.
Call ==
  /\ pc = "call"
  /\ IF NoPageData(pageDataArray)
       THEN /\ pc' = "threw"
            /\ error' = "No page data provided for splitting"
       ELSE /\ pc' = IF Len(pageDataArray.items) > 0 THEN "identity"
                     ELSE "finish"
            /\ error' = error
  /\ index' = 0
  /\ reports' = <<>>
  /\ current' = <<>>
  /\ currentPatientInfo' = NoPatientInfo
  /\ UNCHANGED << pageDataArray, maxPagesPerPatient, branch, forcedInfo,
                  result >>
  /\ UNCHANGED << extractVars, pureVars, runVars, keyVars >>

\* Lines 22-37 for the page at index: extract, compare, split or seed, push.
IdentityStep ==
  /\ pc = "identity"
  /\ LET pageData == pageDataArray.items[index + 1]
         pagePatientInfo == CandidateOf(pageData)
         isDifferentPatient ==
           _isDifferentPatient(currentPatientInfo, pagePatientInfo)
     IN  IF ExtractionThrows(pageData)
           THEN /\ pc' = "threw"
                /\ error' = "TypeError: valueCell.trim is not a function"
                /\ UNCHANGED << reports, current, currentPatientInfo, branch >>
         ELSE IF isDifferentPatient /\ Len(current) > 0
           THEN /\ reports' =
                     Append(reports, _finalizeReport(current, Len(reports)))
                /\ current' = << pageData >>
                /\ currentPatientInfo' = pagePatientInfo
                /\ branch' = "split"
                /\ pc' = "valve"
                /\ error' = error
         ELSE IF currentPatientInfo.t = "null" /\ pagePatientInfo.t # "null"
           THEN /\ currentPatientInfo' = pagePatientInfo
                /\ current' = Append(current, pageData)
                /\ branch' = "first"
                /\ pc' = "valve"
                /\ UNCHANGED << reports, error >>
         ELSE /\ current' = Append(current, pageData)
              /\ branch' = "continue"
              /\ pc' = "valve"
              /\ UNCHANGED << reports, currentPatientInfo, error >>
  /\ UNCHANGED << pageDataArray, maxPagesPerPatient, index, forcedInfo,
                  result >>
  /\ UNCHANGED << extractVars, pureVars, runVars, keyVars >>

\* Lines 39-45 for the page at index, then the loop's advance.
SafetyValve ==
  /\ pc = "valve"
  /\ IF ReachedCap(current, maxPagesPerPatient)
       THEN /\ reports' =
                 Append(reports, _finalizeReport(current, Len(reports)))
            /\ current' = <<>>
            /\ forcedInfo' = currentPatientInfo
            /\ currentPatientInfo' = AnchorAfterForcedSplit(currentPatientInfo)
       ELSE UNCHANGED << reports, current, currentPatientInfo, forcedInfo >>
  /\ IF index + 1 < Len(pageDataArray.items)
       THEN /\ index' = index + 1
            /\ pc' = "identity"
       ELSE /\ index' = index
            /\ pc' = "finish"
  /\ UNCHANGED << pageDataArray, maxPagesPerPatient, branch, result, error >>
  /\ UNCHANGED << extractVars, pureVars, runVars, keyVars >>

\* Lines 48-51: the last report.
Finish ==
  /\ pc = "finish"
  /\ reports' = IF Len(current) > 0
                  THEN Append(reports, _finalizeReport(current, Len(reports)))
                  ELSE reports
  /\ pc' = "validate"
  /\ UNCHANGED << pageDataArray, maxPagesPerPatient, index, current,
                  currentPatientInfo, branch, forcedInfo, result, error >>
  /\ UNCHANGED << extractVars, pureVars, runVars, keyVars >>

\* Line 53 and _validateReports.
_validateReports ==
  /\ pc = "validate"
  /\ LET validReports == ValidReports(reports)
     IN  IF Len(validReports) = 0
           THEN /\ pc' = "threw"
                /\ error' = "No valid reports found after splitting"
                /\ result' = result
           ELSE /\ pc' = "done"
                /\ result' = validReports
                /\ error' = error
  /\ UNCHANGED << pageDataArray, maxPagesPerPatient, index, reports, current,
                  currentPatientInfo, branch, forcedInfo >>
  /\ UNCHANGED << extractVars, pureVars, runVars, keyVars >>

Next ==
  \/ Call
  \/ IdentityStep
  \/ SafetyValve
  \/ Finish
  \/ _validateReports

Spec == Init /\ [][Next]_vars

\* ------------------------------------------------------------------------
\* Properties
\* ------------------------------------------------------------------------

\* The pages of the groups rs, concatenated in emission order
RECURSIVE ConcatPages(_)
ConcatPages(rs) ==
  IF rs = <<>> THEN <<>> ELSE Head(rs).pages \o ConcatPages(Tail(rs))

Items == pageDataArray.items

\* C1 (partition): when splitIntoPatientReports returns, the pages of the
\* returned groups, concatenated in emission order, are exactly the input
\* sequence: same pages, same order, none omitted, none duplicated.
C1_Partition == pc = "done" => ConcatPages(result) = Items

\* C1 witness: a run that returned several groups for a three-page input.
C1_Witness == pc = "done" /\ Len(result) >= 2 /\ Len(Items) >= 3

\* C2 (bounded group size): every group emitted or returned has
\* 1 <= pageCount <= maxPagesPerPatient (pageCount being its number of
\* pages), and once a page's safety-valve check has run the accumulator
\* holds fewer than maxPagesPerPatient pages.
C2_BoundedGroupSize ==
  /\ \A k \in 1..Len(reports) :
       /\ reports[k].pageCount = Len(reports[k].pages)
       /\ 1 <= reports[k].pageCount
       /\ reports[k].pageCount <= maxPagesPerPatient
  /\ \A k \in 1..Len(result) :
       /\ result[k].pageCount = Len(result[k].pages)
       /\ 1 <= result[k].pageCount
       /\ result[k].pageCount <= maxPagesPerPatient
  /\ (pc \in {"identity", "finish"} /\ error = "none")
       => Len(current) < maxPagesPerPatient

\* C2 witness: a returned group that is exactly at a cap of two or more,
\* beside an accumulator that stayed below the cap.
C2_Witness ==
  /\ pc = "done"
  /\ maxPagesPerPatient >= 2
  /\ \E k \in 1..Len(result) : result[k].pageCount = maxPagesPerPatient
  /\ Len(current) >= 1

\* Number of pages in the first k groups of rs
RECURSIVE PagesThrough(_, _)
PagesThrough(rs, k) ==
  IF k = 0 THEN 0 ELSE PagesThrough(rs, k - 1) + Len(rs[k].pages)

\* The group of rs (from 1) that holds the page at position pos (from 1)
GroupOf(rs, pos) ==
  CHOOSE k \in 1..Len(rs) :
    PagesThrough(rs, k - 1) < pos /\ pos <= PagesThrough(rs, k)

\* The candidate of the page at position pos of the input
CandidateAt(pos) == CandidateOf(Items[pos])

\* Pages pos and pos + 1 both yield a candidate with a patientId (read in
\* the claim's favour: a patientId that is a non-empty string), the
\* identifiers differ and the names are identical.
DifferentIdSameName(pos) ==
  /\ CandidateAt(pos).t # "null"
  /\ CandidateAt(pos + 1).t # "null"
  /\ Truthy(CandidateAt(pos).patientId)
  /\ Truthy(CandidateAt(pos + 1).patientId)
  /\ CandidateAt(pos).patientId # CandidateAt(pos + 1).patientId
  /\ CandidateAt(pos).name = CandidateAt(pos + 1).name

PageAtIndex == Items[index + 1]

\* C4 (continuation on missing evidence): if the anchor is present once
\* page n-1 has been fully processed and page n yields no candidate, then
\* the identity step for page n emits no group, appends page n to the
\* accumulator whose last page is page n-1, and leaves the anchor unchanged.
C4_Continuation ==
  [][ ( /\ pc = "identity"
        /\ currentPatientInfo.t # "null"
        /\ ~ExtractionThrows(PageAtIndex)
        /\ CandidateOf(PageAtIndex).t = "null" )
      => ( /\ reports' = reports
           /\ current # <<>>
           /\ current[Len(current)] = Items[index]
           /\ current' = Append(current, PageAtIndex)
           /\ currentPatientInfo' = currentPatientInfo
           /\ branch' = "continue" ) ]_vars

\* C4 witness: a page without candidate has just been appended behind a page
\* of the anchored patient.
C4_Witness ==
  /\ pc = "valve"
  /\ branch = "continue"
  /\ currentPatientInfo.t # "null"
  /\ CandidateOf(PageAtIndex).t = "null"
  /\ Len(current) >= 2
  /\ current[Len(current)] = PageAtIndex

\* The safety valve is about to emit the accumulator.
ForcedSplit == pc = "valve" /\ Len(current) >= maxPagesPerPatient

\* The loop is at the page that directly follows a forced split.
AfterForcedSplit == pc = "identity" /\ index > 0 /\ current = <<>>

\* C5 (forced split resets anchor): a forced split emits the non-empty
\* accumulator and leaves the accumulator empty and the anchor absent; the
\* page that follows, if it yields a candidate (the force-split identity
\* included), takes the 'first patient found' path: the anchor becomes its
\* candidate, no group is emitted, the page opens a new accumulator, and
\* the groups emitted so far stay as they are.
C5_ForcedSplitResetsAnchor ==
  [][ /\ ForcedSplit =>
           /\ current # <<>>
           /\ reports' = Append(reports, _finalizeReport(current, Len(reports)))
           /\ current' = <<>>
           /\ currentPatientInfo'.t = "null"
      /\ ( /\ AfterForcedSplit
           /\ ~ExtractionThrows(PageAtIndex)
           /\ CandidateOf(PageAtIndex).t # "null" ) =>
           /\ currentPatientInfo.t = "null"
           /\ branch' = "first"
           /\ currentPatientInfo' = CandidateOf(PageAtIndex)
           /\ reports' = reports
           /\ current' = << PageAtIndex >>
      /\ \A k \in 1..Len(reports) :
           Len(reports') >= k /\ reports'[k] = reports[k] /\ reports[k].pages # <<>>
    ]_vars

\* C5 witness: after a forced split of a group of an identified patient, the
\* next page yields that same identity and has seeded a new accumulator.
C5_Witness ==
  /\ pc = "valve"
  /\ index > 0
  /\ branch = "first"
  /\ current = << PageAtIndex >>
  /\ forcedInfo.t # "null"
  /\ currentPatientInfo = forcedInfo
  /\ reports # <<>>
  /\ reports[Len(reports)].pageCount = maxPagesPerPatient
  /\ maxPagesPerPatient >= 2

\* The maximal runs of consecutive pages that yield the same patientId
RECURSIVE IdRuns(_)
IdRuns(pages) ==
  IF pages = <<>> THEN <<>>
  ELSE LET rest == IdRuns(Tail(pages))
       IN  IF /\ rest # <<>>
              /\ CandidateOf(Head(rest)[1]).patientId
                   = CandidateOf(Head(pages)).patientId
             THEN << <<Head(pages)>> \o Head(rest) >> \o Tail(rest)
             ELSE << <<Head(pages)>> >> \o rest

\* Every page yields a candidate that carries a patientId, and every run of
\* one patientId is shorter than the cap.
ShortIdRuns ==
  /\ pageDataArray.t = "array"
  /\ Len(Items) > 0
  /\ \A i \in 1..Len(Items) :
       /\ ~ExtractionThrows(Items[i])
       /\ CandidateOf(Items[i]).t # "null"
       /\ Truthy(CandidateOf(Items[i]).patientId)
  /\ \A r \in 1..Len(IdRuns(Items)) :
       Len(IdRuns(Items)[r]) < maxPagesPerPatient

PageCounts(rs) == [k \in 1..Len(rs) |-> rs[k].pageCount]

\* C6 (run segmentation): when the input consists of k maximal runs of
\* pages carrying one patientId each, adjacent runs carrying different
\* patientIds and every run shorter than maxPagesPerPatient, exactly k
\* groups are returned and the i-th group is the i-th run; the documented
\* 10-page example returns 4 groups of 3, 2, 3 and 2 pages.
C6_RunSegmentation ==
  /\ (pc = "done" /\ ShortIdRuns) =>
       /\ Len(result) = Len(IdRuns(Items))
       /\ \A k \in 1..Len(result) : result[k].pages = IdRuns(Items)[k]
  /\ (pc = "done" /\ Items = PagesOf(ReadmeDocs)
        /\ maxPagesPerPatient = ReadmeMaxPages) =>
       PageCounts(result) = <<3, 2, 3, 2>>

\* C6 witness: the documented example has returned its four groups.
C6_Witness ==
  /\ pc = "done"
  /\ ShortIdRuns
  /\ Items = PagesOf(ReadmeDocs)
  /\ Len(IdRuns(Items)) = 4
  /\ PageCounts(result) = <<3, 2, 3, 2>>

\* C7 (empty input is an error): a call with an empty or a missing page
\* sequence raises the input error before any page is examined and returns
\* no group.
C7_EmptyInputError ==
  ((pageDataArray.t # "array" \/ Len(Items) = 0) /\ pc # "call") =>
    /\ pc = "threw"
    /\ error = "No page data provided for splitting"
    /\ branch = "none"
    /\ index = 0
    /\ reports = <<>>
    /\ current = <<>>
    /\ result = <<>>

\* C7 witness: the call with an empty array has raised.
C7_Witness ==
  /\ pageDataArray.t = "array"
  /\ Len(Items) = 0
  /\ pc = "threw"
  /\ error = "No page data provided for splitting"

\* The page has no extractable identity field and no table.
EvidenceFree(page) ==
  LET data == PageCatalogue[page.doc]
  IN  /\ ExtractFromKeyValuePairs(data.keyValuePairs) = EmptyPatientInfo
      /\ data.tables.t # "array" \/ Len(data.tables.items) = 0

\* C8 (conservative merge): if no page of a non-empty input of N pages has
\* an extractable identity field or a table and N is below the cap, exactly
\* one group is returned, holding all N pages in order, with hasPatientData
\* false.
C8_EvidenceFreeMerge ==
  ( /\ pc = "done"
    /\ \A i \in 1..Len(Items) : EvidenceFree(Items[i])
    /\ Len(Items) < maxPagesPerPatient ) =>
    /\ Len(result) = 1
    /\ result[1].pages = Items
    /\ result[1].pageCount = Len(Items)
    /\ result[1].hasPatientData = FALSE

\* C8 witness: two pages without evidence were returned as one group.
C8_Witness ==
  /\ pc = "done"
  /\ Len(Items) >= 2
  /\ \A i \in 1..Len(Items) : EvidenceFree(Items[i])
  /\ Len(Items) < maxPagesPerPatient
  /\ Len(result) = 1

\* C9 (the no-viable-groups error is unreachable): every group handed to
\* the validation has a page, the validation is handed at least one group,
\* drops none and returns them all, and 'No valid reports found after
\* splitting' is never raised.
C9_NoViableGroupsUnreachable ==
  /\ \A k \in 1..Len(reports) : Len(reports[k].pages) > 0
  /\ pc = "validate" => Len(reports) >= 1
  /\ pc = "done" => (result = reports /\ Len(result) >= 1)
  /\ error # "No valid reports found after splitting"

\* C9 witness: the validation has returned the groups of the scan, one of
\* them a single page.
C9_Witness ==
  /\ pc = "done"
  /\ error = "none"
  /\ result = reports
  /\ \E k \in 1..Len(result) : result[k].pageCount = 1

\* C10 as claimed (soft skips never abort): for a non-empty input whose
\* pages carry malformed evidence (no field map, tables without rows, rows
\* that are not arrays, empty or non-string cells anywhere, the cell after a
\* label cell included), identity extraction never raises, so the run never
\* ends in an error.
C10_SoftSkipsNeverAbort ==
  (pageDataArray.t = "array" /\ Len(Items) > 0) => pc # "threw"

\* ------------------------------------------------------------------------
\* Identity extraction of one page, step by step
\* ------------------------------------------------------------------------

sHash == <<"#">>

sHashOne == <<"#","1">>

sFortyTwo == <<"4","2">>

sDobA == <<"1","/","2","/","1","9","8","0">>

sDobB == <<"3","/","4","/","1","9","9","0">>

sNotAvailable == <<"n","/","a">>

sNameLabel == <<"N","a","m","e">>

sDobLabel == <<"D","O","B">>

sMrnLabel == <<"M","R","N">>

\* What the field map holds for the name labels.
NameFields ==
  << <<>>,
     "patient name" :> Str(sAnnLee),
     \* cleans to the empty string
     "patient name" :> Str(sHash),
     \* all digits under the first label, a name under a later one
     ("patient name" :> Str(sFortyTwo)) @@ ("name" :> Str(sBobRay)),
     "full name" :> Str(sBobRay) >>

\* What the field map holds for the identifier labels.
IdFields ==
  << <<>>,
     "patient id" :> Str(sIdA),
     \* nothing but punctuation under the first label, an identifier under
     \* a later one
     ("patient id" :> Str(sHash)) @@ ("mrn" :> Str(sIdB)),
     "mrn" :> Str(sIdB),
     \* one word character
     "patient id" :> Str(sHashOne) >>

\* What the field map holds for the date-of-birth labels.
DobFields ==
  << <<>>,
     "dob" :> Str(sDobA),
     "dob" :> Str(sNotAvailable) >>

\* The tables of a page.
TableChoices ==
  << NotArray("undefined"),
     Array(<<>>),
     PageCatalogue.tableA.tables,
     \* a date of birth, a name that cleans to nothing, two more names
     Array(<< Table(Array(<<
       Array(<< Str(sDobLabel), Str(sDobB) >>),
       Array(<< Str(sNameLabel), Str(sHash) >>),
       Array(<< Str(sNameLabel), Str(sBobRay) >>),
       Array(<< Str(sNameLabel), Str(sAnnLee) >>) >>)) >>),
     \* two identifiers, in two tables
     Array(<< Table(Array(<< Array(<< Str(sMrnLabel), Str(sIdB) >>) >>)),
              Table(Array(<< Array(<< Str(sMrnLabel), Str(sIdC) >>) >>)) >>),
     PageCatalogue.malformed.tables,
     PageCatalogue.numAfterLabel.tables >>

\* pageData being null or undefined
NullPage ==
  [t |-> "null", keyValuePairs |-> NoKeyValuePairs,
   tables |-> NotArray("undefined")]

\* The pages identity extraction is run on.
ExtractPages ==
  { Page(KeyValuePairs(NameFields[n] @@ IdFields[i] @@ DobFields[d]),
         TableChoices[t]) :
      n \in DOMAIN NameFields, i \in DOMAIN IdFields, d \in DOMAIN DobFields,
      t \in DOMAIN TableChoices }
  \cup { Page(NoKeyValuePairs, TableChoices[t]) : t \in DOMAIN TableChoices }
  \cup { NullPage }

\* row.forEach((cell, index) => ...) of one row: the calls of the callback
CellsOfRow(row) ==
  [i \in 1..Len(row.items) |-> [row |-> row, index |-> i - 1]]

\* table.rows.forEach: the callback calls of the rows that are arrays
RECURSIVE CellsOfRows(_)
CellsOfRows(rows) ==
  IF rows = <<>> THEN <<>>
  ELSE (IF Head(rows).t = "array" THEN CellsOfRow(Head(rows)) ELSE <<>>)
       \o CellsOfRows(Tail(rows))

\* tables.forEach: the callback calls of all tables that have rows, in
\* table, row, cell order
RECURSIVE CellsOfTables(_)
CellsOfTables(tables) ==
  IF tables = <<>> THEN <<>>
  ELSE (IF Head(tables).rows.t = "array"
          THEN CellsOfRows(Head(tables).rows.items) ELSE <<>>)
       \o CellsOfTables(Tail(tables))

\* The callback calls a scan of the page's tables makes.
CellVisits(page) ==
  IF page.tables.t = "array" THEN CellsOfTables(page.tables.items) ELSE <<>>

\* tables && tables.length > 0
HasTables(page) == page.tables.t = "array" /\ Len(page.tables.items) > 0

\* The condition of line 110 of DocumentSplitter.js.
SplitterUsesTables(info, page) ==
  /\ ~Truthy(info.name) \/ ~Truthy(info.patientId)
  /\ HasTables(page)

\* The condition of line 40 of MetadataExtractor.js.
MetadataUsesTables(metadata, page) ==
  _hasIncompleteData(metadata) /\ HasTables(page)

\* Mutant of NoAnchor: only an identity without any field is no anchor.
NoAnchorNoFieldAtAll(info) ==
  ~Truthy(info.name) /\ ~Truthy(info.patientId) /\ ~Truthy(info.dob)

\* The condition of line 115 of DocumentSplitter.js.
NoAnchor(info) == ~Truthy(info.name) /\ ~Truthy(info.patientId)

\* The result of a call that has not returned.
Pending == [t |-> "pending"]

\* The call raised.
Raised(message) == [t |-> "error", message |-> message]

\* The metadata object extractMetadata returns (lines 25-47), identity part.
Metadata(metadata) ==
  [t |-> "object", name |-> metadata.name, patientId |-> metadata.patientId,
   dob |-> metadata.dob, completeness |-> _calculateCompleteness(metadata)]

InitExtract ==
  /\ xwho \in {"splitter", "metadata"}
  /\ xpage \in ExtractPages
  /\ xpc = "start"
  /\ xcur = 1
  /\ xinfo = EmptyPatientInfo
  /\ xconsulted = FALSE
  /\ xresult = Pending
  /\ SplitIdle
  /\ PureIdle
  /\ RunsIdle
  /\ KeysIdle

\* _extractPatientInfo, lines 70-107: the null check and the key-value step.
SplitterKeyValues ==
  /\ xwho = "splitter"
  /\ xpc = "start"
  /\ IF xpage.t # "object"
       THEN /\ xpc' = "done"
            /\ xresult' = NoPatientInfo
            /\ UNCHANGED xinfo
       ELSE /\ xpc' = "gate"
            /\ xinfo' = ExtractFromKeyValuePairs(xpage.keyValuePairs)
            /\ UNCHANGED xresult
  /\ UNCHANGED << xwho, xpage, xcur, xconsulted >>
  /\ UNCHANGED << splitVars, pureVars, runVars, keyVars >>

\* _extractPatientInfo, lines 109-112: whether the tables are scanned.
SplitterGate ==
  /\ xwho = "splitter"
  /\ xpc = "gate"
  /\ xconsulted' = SplitterUsesTables(xinfo, xpage)
  /\ xpc' = IF xconsulted' /\ Len(CellVisits(xpage)) > 0 THEN "scan"
            ELSE "return"
  /\ UNCHANGED << xwho, xpage, xcur, xinfo, xresult >>
  /\ UNCHANGED << splitVars, pureVars, runVars, keyVars >>

\* DocumentSplitter._extractFromTables: one call of the cell callback.
SplitterCell ==
  /\ xwho = "splitter"
  /\ xpc = "scan"
  /\ LET visit == CellVisits(xpage)[xcur]
         st == CellStep([threw |-> FALSE, info |-> xinfo], visit.row,
                        visit.index)
     IN  IF st.threw
           THEN /\ xpc' = "threw"
                /\ xresult' = Raised("TypeError")
                /\ UNCHANGED << xinfo, xcur >>
           ELSE /\ xinfo' = st.info
                /\ xcur' = xcur + 1
                /\ xpc' = IF xcur' > Len(CellVisits(xpage)) THEN "return"
                          ELSE "scan"
                /\ UNCHANGED xresult
  /\ UNCHANGED << xwho, xpage, xconsulted >>
  /\ UNCHANGED << splitVars, pureVars, runVars, keyVars >>

\* _extractPatientInfo, lines 114-119: null without a name and an id.
SplitterReturn ==
  /\ xwho = "splitter"
  /\ xpc = "return"
  /\ xresult' = IF NoAnchor(xinfo) THEN NoPatientInfo ELSE PatientInfo(xinfo)
  /\ xpc' = "done"
  /\ UNCHANGED << xwho, xpage, xcur, xinfo, xconsulted >>
  /\ UNCHANGED << splitVars, pureVars, runVars, keyVars >>

\* extractMetadata, lines 20-37: the null check and the key-value step.
MetadataKeyValues ==
  /\ xwho = "metadata"
  /\ xpc = "start"
  /\ IF xpage.t # "object"
       THEN /\ xpc' = "threw"
            /\ xresult' = Raised("Page data is required for metadata extraction")
            /\ UNCHANGED xinfo
       ELSE /\ xpc' = "gate"
            /\ xinfo' = MetadataExtractFromKeyValuePairs(xpage.keyValuePairs)
            /\ UNCHANGED xresult
  /\ UNCHANGED << xwho, xpage, xcur, xconsulted >>
  /\ UNCHANGED << splitVars, pureVars, runVars, keyVars >>

\* extractMetadata, lines 40-42: whether the tables are scanned.
MetadataGate ==
  /\ xwho = "metadata"
  /\ xpc = "gate"
  /\ xconsulted' = MetadataUsesTables(xinfo, xpage)
  /\ xpc' = IF xconsulted' /\ Len(CellVisits(xpage)) > 0 THEN "scan"
            ELSE "return"
  /\ UNCHANGED << xwho, xpage, xcur, xinfo, xresult >>
  /\ UNCHANGED << splitVars, pureVars, runVars, keyVars >>

\* MetadataExtractor._extractFromTables: one call of the cell callback.
MetadataCell ==
  /\ xwho = "metadata"
  /\ xpc = "scan"
  /\ LET visit == CellVisits(xpage)[xcur]
         st == MetadataCellStep([threw |-> FALSE, info |-> xinfo], visit.row,
                                visit.index)
     IN  IF st.threw
           THEN /\ xpc' = "threw"
                /\ xresult' = Raised("TypeError")
                /\ UNCHANGED << xinfo, xcur >>
           ELSE /\ xinfo' = st.info
                /\ xcur' = xcur + 1
                /\ xpc' = IF xcur' > Len(CellVisits(xpage)) THEN "return"
                          ELSE "scan"
                /\ UNCHANGED xresult
  /\ UNCHANGED << xwho, xpage, xconsulted >>
  /\ UNCHANGED << splitVars, pureVars, runVars, keyVars >>

\* extractMetadata, lines 45-47: completeness, and the metadata is returned.
MetadataReturn ==
  /\ xwho = "metadata"
  /\ xpc = "return"
  /\ xresult' = Metadata(xinfo)
  /\ xpc' = "done"
  /\ UNCHANGED << xwho, xpage, xcur, xinfo, xconsulted >>
  /\ UNCHANGED << splitVars, pureVars, runVars, keyVars >>

NextExtract ==
  \/ SplitterKeyValues
  \/ SplitterGate
  \/ SplitterCell
  \/ SplitterReturn
  \/ MetadataKeyValues
  \/ MetadataGate
  \/ MetadataCell
  \/ MetadataReturn

SpecExtract == InitExtract /\ [][NextExtract]_vars

\* The steps of the splitter's extraction return what _extractPatientInfo
\* computes in one go.
SplitterStepsAgree ==
  xwho = "splitter" /\ xpc \in {"done", "threw"} =>
    /\ _extractPatientInfo(xpage).threw = (xpc = "threw")
    /\ xpc = "done" => _extractPatientInfo(xpage).info = xresult

\* ------------------------------------------------------------------------
\* Properties of identity extraction
\* ------------------------------------------------------------------------

IdentityFields == {"name", "patientId", "dob"}

\* The validity predicate of the field normalizer, per kind of field.
ValidField(field, chars) ==
  IF field = "name" THEN Len(chars) >= 2 /\ ~AllDigits(chars)
  ELSE IF field = "patientId" THEN Len(chars) >= 3
  ELSE HasDigit(chars) /\ Len(chars) >= 6

\* C11: every field of every candidate _extractPatientInfo returns is null
\* or a non-empty string that passes the validity predicate of its kind
\* (name: at least 2 characters and not all digits; patientId: at least 3
\* characters; dob: a digit and at least 6 characters).
C11_CandidateFieldsValid ==
  xwho = "splitter" /\ xpc = "done" /\ xresult.t = "object" =>
    \A f \in IdentityFields :
      \/ xresult[f] = Null
      \/ /\ IsString(xresult[f])
         /\ xresult[f].s # <<>>
         /\ ValidField(f, xresult[f].s)

\* C12: _extractPatientInfo returns null, not an object, exactly for the
\* pages on which neither a name nor a patientId resolved, whether or not a
\* date of birth resolved; every returned candidate has a non-empty name or
\* a non-empty patientId.
C12_DobAloneIsNoAnchor ==
  xwho = "splitter" /\ xpc = "done" =>
    /\ xresult.t \in {"null", "object"}
    /\ xresult.t = "null" <=>
         ~(\E f \in {"name", "patientId"} :
             IsString(xinfo[f]) /\ xinfo[f].s # <<>>)
    /\ xresult.t = "object" =>
         \E f \in {"name", "patientId"} :
           IsString(xresult[f]) /\ xresult[f].s # <<>>

\* A page on which only the date of birth resolved has returned null.
C12_Witness ==
  /\ xwho = "splitter"
  /\ xpc = "done"
  /\ xpage.t = "object"
  /\ IsString(xinfo.dob) /\ xinfo.dob.s # <<>>
  /\ xresult.t = "null"

\* C14: the completeness extractMetadata returns is the number of non-null
\* fields among name, dob and patientId over 3, so one of 0, 1/3, 2/3 and 1;
\* with exactly name and patientId it is 2/3.
C14_Completeness ==
  xwho = "metadata" /\ xpc = "done" =>
    LET nonNull == {f \in IdentityFields : xresult[f] # Null}
    IN  /\ xresult.completeness.den = 3
        /\ xresult.completeness.num = Cardinality(nonNull)
        /\ xresult.completeness.num \in 0..3
        /\ nonNull = {"name", "patientId"} => xresult.completeness.num = 2

\* Metadata with a name and a patientId and no date of birth was returned.
C14_Witness ==
  /\ xwho = "metadata"
  /\ xpc = "done"
  /\ xresult.name # Null
  /\ xresult.patientId # Null
  /\ xresult.dob = Null
  /\ xresult.completeness = [num |-> 2, den |-> 3]

\* The labels a field is looked up under in the field map, in order.
AliasKeys(who, field) ==
  IF who = "splitter"
    THEN (IF field = "name" THEN kvNameKeys
          ELSE IF field = "patientId" THEN kvIdKeys ELSE kvDobKeys)
    ELSE [k \in 1..Len(fieldMappings[field]) |-> fieldMappings[field][k].key]

\* The normalizer of each class.
Normalize(who, value, field) ==
  IF who = "splitter" THEN _cleanPatientValue(value)
  ELSE _cleanValue(value, field)

\* The positions of the labels that have a non-empty value in the field map.
AliasesWithValue(who, field, kv) ==
  {k \in 1..Len(AliasKeys(who, field)) :
     LET v == KvGet(kv, AliasKeys(who, field)[k])
     IN  IsString(v) /\ v.s # <<>>}

FirstAliasWithValue(who, field, kv) ==
  CHOOSE k \in AliasesWithValue(who, field, kv) :
    \A j \in AliasesWithValue(who, field, kv) : k <= j

\* The first label with a value yields no usable value, a later one would.
LaterAliasWouldResolve(who, field, kv) ==
  /\ AliasesWithValue(who, field, kv) # {}
  /\ LET keys == AliasKeys(who, field)
         first == FirstAliasWithValue(who, field, kv)
     IN  /\ ~Truthy(Normalize(who, KvGet(kv, keys[first]), field))
         /\ \E k \in AliasesWithValue(who, field, kv) :
              k > first /\ Truthy(Normalize(who, KvGet(kv, keys[k]), field))

\* C18: after the structured-field step, in both classes, each field holds
\* the normalized value of the first label, in list order, that has a
\* non-empty value in the field map, and nothing if no label has one; when
\* normalizing that value fails the field is left unresolved, whatever the
\* later labels hold.
C18_FirstMatchWins ==
  xpc = "gate" =>
    \A f \in IdentityFields :
      LET kv == xpage.keyValuePairs
          keys == AliasKeys(xwho, f)
      IN  IF kv.t # "object" \/ AliasesWithValue(xwho, f, kv) = {}
            THEN xinfo[f] = Null
            ELSE LET first == KvGet(kv, keys[FirstAliasWithValue(xwho, f, kv)])
                 IN  /\ xinfo[f] = Normalize(xwho, first, f)
                     /\ ~Truthy(Normalize(xwho, first, f)) => ~Truthy(xinfo[f])

\* After the structured-field step of either class the patientId is
\* unresolved although a later label holds an identifier.
C18_Witness ==
  /\ xpc = "gate"
  /\ xpage.keyValuePairs.t = "object"
  /\ LaterAliasWouldResolve(xwho, "patientId", xpage.keyValuePairs)
  /\ ~Truthy(xinfo.patientId)

\* C19: in both classes the tables are consulted only if the name or the
\* patientId is still missing after the structured-field step; with both
\* resolved the tables are left alone even if the date of birth is missing.
C19_TablesOnlyWithoutAnchor ==
  xpc \in {"scan", "return"} /\ xcur = 1 /\ xconsulted =>
    ~Truthy(xinfo.name) \/ ~Truthy(xinfo.patientId)

\* C19, the half that holds: DocumentSplitter consults the tables only if
\* the name or the patientId is missing after the structured-field step.
SplitterTablesOnlyWithoutAnchor ==
  xwho = "splitter" => C19_TablesOnlyWithoutAnchor

\* C20: in both classes, once a field holds a non-empty value, from the
\* structured-field step or from an earlier table cell, no later table cell
\* changes it.
C20_WriteOnce ==
  [][ \A f \in IdentityFields :
        xpc = "scan" /\ IsString(xinfo[f]) /\ xinfo[f].s # <<>> =>
          xinfo'[f] = xinfo[f] ]_vars

\* The field map gave the patientId A-100, the tables were scanned for the
\* missing name, and the identifiers of the tables changed nothing.
C20_Witness ==
  /\ xpc = "done"
  /\ xconsulted
  /\ xpage.keyValuePairs.t = "object"
  /\ KvGet(xpage.keyValuePairs, "patient id") = Str(sIdA)
  /\ xpage.tables = TableChoices[5]
  /\ xresult.patientId = Str(sIdA)

\* ------------------------------------------------------------------------
\* Single calls: _cleanValue, _isDifferentPatient, createReportProcessor
\* ------------------------------------------------------------------------

\* The longest raw value built character by character.
MaxValueLen == 4

\* The characters raw values are built from: a letter, a digit, a space, a
\* punctuation mark and a hyphen.
ValueChars == {"A", "7", " ", "#", "-"}

RECURSIVE ValuesOfLen(_)
ValuesOfLen(n) ==
  IF n = 0 THEN {<<>>}
  ELSE {<<c>> \o s : c \in ValueChars, s \in ValuesOfLen(n - 1)}

\* Longer raw values, each also with a space before and after it.
LongValues ==
  LET cores == { sAnnLee, sIdA, sDobA, sNotAvailable,
                 <<"1","/","2","/","8">>,
                 <<"1","/","2","/","8","0">>,
                 <<"1","2","3","4","5","6">>,
                 <<"A","_","1">> }
      pads == { <<>>, <<" ">> }
  IN  {pre \o core \o post : pre \in pads, core \in cores, post \in pads}

\* The raw values _cleanValue is called with.
RawValues ==
  {Str(s) : s \in UNION {ValuesOfLen(n) : n \in 0..MaxValueLen} \cup LongValues}
  \cup {Null, Undefined, Num(sFortyTwo)}

\* An object of property values, or the object being absent; the property
\* names are text.
Object(props) == [t |-> "object", props |-> props]

NoObject == [t |-> "undefined", props |-> <<>>]

\* obj[name]
Get(obj, name) == IF name \in DOMAIN obj.props THEN obj.props[name] ELSE Undefined

pRegion == <<"r","e","g","i","o","n">>

pS3BucketName == <<"s","3","B","u","c","k","e","t","N","a","m","e">>

pAwsregion == <<"a","w","s","r","e","g","i","o","n">>

pS3bucket_name == <<"s","3","b","u","c","k","e","t","_","n","a","m","e">>

eAWS_REGION == <<"A","W","S","_","R","E","G","I","O","N">>

eS3_BUCKET_NAME == <<"S","3","_","B","U","C","K","E","T","_","N","A","M","E">>

sUsEast1 == <<"u","s","-","e","a","s","t","-","1">>

sReportsBk == <<"r","e","p","o","r","t","s","-","b","k">>

sEuWest1 == <<"e","u","-","w","e","s","t","-","1">>

sMyBucket == <<"m","y","-","b","u","c","k","e","t">>

\* str.replace(from, to) for a one-character from and an empty to: the
\* first occurrence is removed.
RemoveFirst(chars, c) ==
  LET at == {i \in 1..Len(chars) : chars[i] = c}
  IN  IF at = {} THEN chars
      ELSE LET first == CHOOSE i \in at : \A j \in at : i <= j
           IN  SubSeq(chars, 1, first - 1) \o SubSeq(chars, first + 1, Len(chars))

\* new Config(): the aws section (lines 6-9 of Config.js)
ConfigAws(env) ==
  Object((pRegion :> OrElse(Get(env, eAWS_REGION), Str(sUsEast1)))
         @@ (pS3BucketName :> OrElse(Get(env, eS3_BUCKET_NAME), Str(sReportsBk))))

\* Config.merge, the aws section: Object.assign(this.aws, customConfig.aws)
merge(aws, customAws) ==
  IF customAws.t # "object" THEN aws
  ELSE Object(customAws.props @@ aws.props)

required == << eAWS_REGION, eS3_BUCKET_NAME >>

\* key.toLowerCase().replace('_', '')
AwsProperty(key) == RemoveFirst(ToLowerCase(key), "_")

\* Config.validate: the missing variables (line 39)
missing(env, aws) ==
  SelectSeq(required,
            LAMBDA key : ~Truthy(Get(env, key)) /\ ~Truthy(Get(aws, AwsProperty(key))))

\* The environments: each variable unset, empty or set.
Environments ==
  { Object((eAWS_REGION :> r) @@ (eS3_BUCKET_NAME :> b)) :
      r \in {Undefined, Str(<<>>), Str(sUsEast1)},
      b \in {Undefined, Str(<<>>), Str(sReportsBk)} }

\* The aws sections of the custom configurations.
CustomAws ==
  { NoObject }
  \cup
  { Object([p \in ps |-> IF p = pRegion \/ p = pAwsregion THEN Str(sEuWest1)
                         ELSE Str(sMyBucket)]) :
      ps \in SUBSET {pRegion, pS3BucketName, pAwsregion, pS3bucket_name} }

\* The candidates _extractPatientInfo returns for the pages of ExtractPages,
\* null included.
Candidates ==
  { _extractPatientInfo(p).info :
      p \in {q \in ExtractPages : ~_extractPatientInfo(q).threw} }

Returned(value) == [t |-> "returned", value |-> value]

InitPure ==
  /\ call \in
       [fn : {"_cleanValue"}, value : RawValues, field : IdentityFields]
       \cup [fn : {"_isDifferentPatient"}, currentPatient : Candidates,
             newPatient : Candidates]
       \cup [fn : {"createReportProcessor"}, env : Environments,
             customAws : CustomAws]
  /\ ret = Pending
  /\ SplitIdle
  /\ ExtractIdle
  /\ RunsIdle
  /\ KeysIdle

\* A call of MetadataExtractor._cleanValue.
CallCleanValue ==
  /\ call.fn = "_cleanValue"
  /\ ret = Pending
  /\ ret' = Returned(_cleanValue(call.value, call.field))
  /\ UNCHANGED << call, splitVars, extractVars, runVars, keyVars >>

\* A call of DocumentSplitter._isDifferentPatient.
CallIsDifferentPatient ==
  /\ call.fn = "_isDifferentPatient"
  /\ ret = Pending
  /\ ret' = Returned(_isDifferentPatient(call.currentPatient, call.newPatient))
  /\ UNCHANGED << call, splitVars, extractVars, runVars, keyVars >>

\* createReportProcessor (index.js lines 22-26): new Config(), merge, and
\* the ReportProcessor constructor with its call of validate.
createReportProcessor ==
  /\ call.fn = "createReportProcessor"
  /\ ret = Pending
  /\ LET aws == merge(ConfigAws(call.env), call.customAws)
     IN  ret' = IF Len(missing(call.env, aws)) > 0
                  THEN [t |-> "error",
                        message |-> "Missing required environment variables",
                        missing |-> missing(call.env, aws)]
                  ELSE [t |-> "ReportProcessor", aws |-> aws]
  /\ UNCHANGED << call, splitVars, extractVars, runVars, keyVars >>

NextPure ==
  \/ CallCleanValue
  \/ CallIsDifferentPatient
  \/ createReportProcessor

SpecPure == InitPure /\ [][NextPure]_vars

\* ------------------------------------------------------------------------
\* Properties of single calls
\* ------------------------------------------------------------------------

\* The name rule as the claim states it: trimmed, then stripped.
NameAsStated(chars) ==
  LET s == StripSpecial(Trim(chars))
  IN  IF Len(s) < 2 \/ AllDigits(s) THEN Null ELSE Str(s)

\* The name rule with the result of the stripping trimmed again.
NameTrimmedAgain(chars) ==
  LET s == Trim(StripSpecial(Trim(chars)))
  IN  IF Len(s) < 2 \/ AllDigits(s) THEN Null ELSE Str(s)

DobAsStated(chars) ==
  LET s == Trim(chars)
  IN  IF ~HasDigit(s) \/ Len(s) < 6 THEN Null ELSE Str(s)

PatientIdAsStated(chars) ==
  LET s == StripNonWord(chars)
  IN  IF Len(s) < 3 THEN Null ELSE Str(s)

\* What the claim's rules have in common for all kinds of field.
NormalizerCommon ==
  /\ ret.t = "returned"
  /\ ~IsString(call.value) \/ call.value.s = <<>> => ret.value = Null
  /\ ret.value # Null => IsString(ret.value) /\ ret.value.s # <<>>
  /\ IsString(call.value) /\ call.field = "dob" =>
       ret.value = DobAsStated(call.value.s)
  /\ IsString(call.value) /\ call.field = "patientId" =>
       ret.value = PatientIdAsStated(call.value.s)

\* C13 as stated: _cleanValue never raises, returns null for a non-string
\* or empty value; for a name the trimmed value stripped of everything but
\* word characters, whitespace and hyphens, or null if that is shorter than
\* 2 or all digits; for a dob the trimmed value, or null without a digit or
\* below length 6; for a patientId the value stripped of non-word
\* characters, or null below length 3; a non-null result is non-empty.
C13_NormalizerAsStated ==
  call.fn = "_cleanValue" /\ ret # Pending =>
    /\ NormalizerCommon
    /\ IsString(call.value) /\ call.field = "name" =>
         ret.value = NameAsStated(call.value.s)

\* C13, amended: as above, but for a name the stripped value is trimmed
\* again, and the length and all-digit tests apply to that result.
C13_NormalizerRules ==
  call.fn = "_cleanValue" /\ ret # Pending =>
    /\ NormalizerCommon
    /\ IsString(call.value) /\ call.field = "name" =>
         ret.value = NameTrimmedAgain(call.value.s)

\* A name was returned whose stripped form had white space at an end.
C13_Witness ==
  /\ call.fn = "_cleanValue"
  /\ call.field = "name"
  /\ ret # Pending
  /\ IsString(call.value)
  /\ StripSpecial(Trim(call.value.s)) # Trim(StripSpecial(Trim(call.value.s)))
  /\ ret.value # Null

\* The reference rule of the comparison, on fields that are null or not.
ReferenceIsDifferent(anchor, candidate) ==
  IF anchor.t = "null" THEN candidate.t # "null"
  ELSE IF candidate.t = "null" THEN FALSE
  ELSE IF anchor.patientId # Null /\ candidate.patientId # Null
         THEN anchor.patientId # candidate.patientId
  ELSE IF anchor.name # Null /\ candidate.name # Null
         THEN anchor.name # candidate.name
  ELSE IF anchor.dob # Null /\ candidate.dob # Null
         THEN anchor.dob # candidate.dob
  ELSE FALSE

\* C17: for every anchor and candidate, _isDifferentPatient equals the
\* reference rule: anchor absent -> candidate present; candidate absent ->
\* false; both patientIds non-null -> ids differ; else both names non-null
\* -> names differ; else both dobs non-null -> dobs differ; else false.
C17_ComparisonPrecedence ==
  call.fn = "_isDifferentPatient" /\ ret # Pending =>
    ret.value = ReferenceIsDifferent(call.currentPatient, call.newPatient)

\* No field of the candidate is an empty string.
NoEmptyField(candidate) ==
  \A f \in IdentityFields : candidate[f] # Str(<<>>)

\* C17 on the pairs without an empty-string field: there the code and the
\* reference rule agree.
ComparisonPrecedenceWithoutEmptyFields ==
  /\ call.fn = "_isDifferentPatient"
  /\ ret # Pending
  /\ NoEmptyField(call.currentPatient)
  /\ NoEmptyField(call.newPatient)
  => ret.value = ReferenceIsDifferent(call.currentPatient, call.newPatient)

\* C15: createReportProcessor with a custom configuration that supplies
\* aws.region and aws.s3BucketName returns a ReportProcessor, whether or
\* not AWS_REGION and S3_BUCKET_NAME are set in the environment.
C15_ProgrammaticConstruction ==
  /\ call.fn = "createReportProcessor"
  /\ ret # Pending
  /\ Truthy(Get(call.customAws, pRegion))
  /\ Truthy(Get(call.customAws, pS3BucketName))
  => ret.t = "ReportProcessor"

\* ------------------------------------------------------------------------
\* Two runs of splitIntoPatientReports on one splitter
\* ------------------------------------------------------------------------

\* The longest input of a run.
MaxRunPages == 2

\* The values of maxPagesPerPatient of the shared splitter.
RunCaps == {1, 2}

\* The pages the inputs of the runs are built from.
RunDocs == {"idA", "idB", "blank"}

RunInputs ==
  {Array(PagesOf(docs)) :
     docs \in UNION {SeqsOfLen(RunDocs, n) : n \in 0..MaxRunPages}}
  \cup {NotArray("undefined")}

\* The constructor of DocumentSplitter (lines 5-10).
DocumentSplitter(cap) ==
  [maxPagesPerPatient |-> cap,
   patientIndicatorKeys |->
     << Str(<<"p","a","t","i","e","n","t"," ","n","a","m","e">>),
        Str(<<"n","a","m","e">>),
        Str(<<"p","a","t","i","e","n","t">>),
        Str(<<"p","a","t","i","e","n","t"," ","i","d">>),
        Str(<<"m","r","n">>),
        Str(<<"m","e","d","i","c","a","l"," ","r","e","c","o","r","d"," ","n","u","m","b","e","r">>) >>]

\* A call of splitIntoPatientReports before its first statement: the
\* argument, and the locals reports, current and currentPatientInfo of
\* lines 17-19.
NewRun(arr) ==
  [pageDataArray |-> arr, pc |-> "call", index |-> 0, reports |-> <<>>,
   current |-> <<>>, currentPatientInfo |-> NoPatientInfo, result |-> <<>>,
   error |-> "none"]

\* One step of a run of splitIntoPatientReports on the splitter this: the
\* argument check (lines 13-19), the identity part of the loop body (22-37),
\* its safety check (39-45), the last report (48-51) or _validateReports
\* (53, 214-238). Only the run's own locals are written.
RunStep(this, run) ==
  LET items == run.pageDataArray.items
      pageData == items[run.index + 1]
      pagePatientInfo == CandidateOf(pageData)
      closed == Append(run.reports,
                       _finalizeReport(run.current, Len(run.reports)))
      validReports == ValidReports(run.reports)
  IN  IF run.pc = "call"
        THEN IF NoPageData(run.pageDataArray)
               THEN [run EXCEPT !.pc = "threw",
                                !.error = "No page data provided for splitting"]
               ELSE [run EXCEPT !.pc = IF Len(items) > 0 THEN "identity"
                                       ELSE "finish"]
      ELSE IF run.pc = "identity"
        THEN IF ExtractionThrows(pageData)
               THEN [run EXCEPT !.pc = "threw",
                                !.error = "TypeError: valueCell.trim is not a function"]
             ELSE IF /\ _isDifferentPatient(run.currentPatientInfo,
                                            pagePatientInfo)
                     /\ Len(run.current) > 0
               THEN [run EXCEPT !.reports = closed,
                                !.current = << pageData >>,
                                !.currentPatientInfo = pagePatientInfo,
                                !.pc = "valve"]
             ELSE IF run.currentPatientInfo.t = "null"
                     /\ pagePatientInfo.t # "null"
               THEN [run EXCEPT !.currentPatientInfo = pagePatientInfo,
                                !.current = Append(run.current, pageData),
                                !.pc = "valve"]
             ELSE [run EXCEPT !.current = Append(run.current, pageData),
                              !.pc = "valve"]
      ELSE IF run.pc = "valve"
        THEN LET after ==
                   IF ReachedCap(run.current, this.maxPagesPerPatient)
                     THEN [run EXCEPT
                             !.reports = closed,
                             !.current = <<>>,
                             !.currentPatientInfo =
                               AnchorAfterForcedSplit(run.currentPatientInfo)]
                     ELSE run
             IN  IF run.index + 1 < Len(items)
                   THEN [after EXCEPT !.index = run.index + 1,
                                      !.pc = "identity"]
                   ELSE [after EXCEPT !.pc = "finish"]
      ELSE IF run.pc = "finish"
        THEN [run EXCEPT !.reports = IF Len(run.current) > 0 THEN closed
                                     ELSE run.reports,
                         !.pc = "validate"]
      ELSE IF run.pc = "validate"
        THEN IF Len(validReports) = 0
               THEN [run EXCEPT !.pc = "threw",
                                !.error = "No valid reports found after splitting"]
               ELSE [run EXCEPT !.pc = "done", !.result = validReports]
      ELSE run

\* Mutant of splitIntoPatientReports: a forced split lowers the cap of the
\* splitter (this.maxPagesPerPatient-- in the safety check).
SplitLowersCap(this, run) ==
  [this |-> IF /\ run.pc = "valve"
               /\ ReachedCap(run.current, this.maxPagesPerPatient)
               /\ this.maxPagesPerPatient > 1
              THEN [this EXCEPT !.maxPagesPerPatient = @ - 1]
              ELSE this,
   run |-> RunStep(this, run)]

\* One step of splitIntoPatientReports as the splitter and the run after
\* it: the method assigns to no field of this.
splitIntoPatientReports(this, run) == [this |-> this, run |-> RunStep(this, run)]

Ended(run) == run.pc \in {"done", "threw"}

\* The run taken to its end with no other run on the splitter.
RECURSIVE RunAlone(_, _)
RunAlone(this, run) ==
  IF Ended(run) THEN run
  ELSE LET next == splitIntoPatientReports(this, run)
       IN  RunAlone(next.this, next.run)

\* RunAlone of every input and cap, computed once.
AloneOf ==
  [arr \in RunInputs |->
     [cap \in RunCaps |-> RunAlone(DocumentSplitter(cap), NewRun(arr))]]

InitRuns ==
  /\ \E cap \in RunCaps : instance = DocumentSplitter(cap)
  /\ runs \in [{1, 2} -> {NewRun(arr) : arr \in RunInputs}]
  /\ SplitIdle
  /\ ExtractIdle
  /\ PureIdle
  /\ KeysIdle

\* One of the two runs takes its next step.
StepOfRun ==
  \E r \in {1, 2} :
    /\ ~Ended(runs[r])
    /\ LET next == splitIntoPatientReports(instance, runs[r])
       IN  /\ instance' = next.this
           /\ runs' = [runs EXCEPT ![r] = next.run]
    /\ UNCHANGED << splitVars, extractVars, pureVars, keyVars >>

NextRuns == StepOfRun

SpecRuns == InitRuns /\ [][NextRuns]_vars

\* C16: a run that ended, whatever steps of the other run came in between,
\* returned the groups (or raised the error) it returns alone, and no step
\* changes the splitter's fields or the input of a run.
C16_IndependentRuns ==
  /\ [](\A r \in {1, 2} :
          Ended(runs[r]) =>
            LET alone == AloneOf[runs[r].pageDataArray][instance.maxPagesPerPatient]
            IN  /\ runs[r].pc = alone.pc
                /\ runs[r].result = alone.result
                /\ runs[r].error = alone.error)
  /\ [][ /\ instance' = instance
         /\ \A r \in {1, 2} : runs'[r].pageDataArray = runs[r].pageDataArray
         /\ \E r \in {1, 2} : \A o \in {1, 2} \ {r} : runs'[o] = runs[o] ]_vars

\* Both runs are past their first page, each with its own anchor.
C16_Witness ==
  /\ runs[1].pc = "valve"
  /\ runs[1].index = 1
  /\ runs[2].pc = "identity"
  /\ runs[2].index = 1
  /\ runs[1].currentPatientInfo.t = "object"
  /\ runs[2].currentPatientInfo.t = "object"
  /\ runs[1].currentPatientInfo # runs[2].currentPatientInfo

\* A run of the single-run specification ends as RunAlone says.
RunAloneAgrees ==
  pc \in {"done", "threw"} =>
    LET alone == RunAlone(DocumentSplitter(maxPagesPerPatient),
                          NewRun(pageDataArray))
    IN  /\ pc = alone.pc
        /\ result = alone.result
        /\ error = alone.error

\* ------------------------------------------------------------------------
\* Further properties of splitIntoPatientReports
\* ------------------------------------------------------------------------

\* C21: whenever the anchor is set through the 'first patient found' branch
\* (anchor absent, candidate present, no group emitted at this page), the
\* accumulator is empty at that moment, and the seeding page becomes the
\* first page of its group.
C21_SeedingOnEmptyGroup ==
  [][ pc = "identity" /\ pc' = "valve" /\ branch' = "first" =>
        /\ currentPatientInfo.t = "null"
        /\ CandidateOf(PageAtIndex).t # "null"
        /\ reports' = reports
        /\ current = <<>>
        /\ current' = << PageAtIndex >>
        /\ currentPatientInfo' = CandidateOf(PageAtIndex) ]_vars

\* A page after the first one has seeded the anchor.
C21_Witness ==
  /\ pc = "valve"
  /\ branch = "first"
  /\ index > 0
  /\ current = << PageAtIndex >>
  /\ currentPatientInfo.t = "object"

\* C22: the k-th returned group (k from 0) has reportIndex k, pageCount its
\* number of pages, firstPageIndex and lastPageIndex the index of its first
\* and last page, firstPageIndex <= lastPageIndex, and its lastPageIndex is
\* below the firstPageIndex of the next group.
C22_DescriptorsConsistent ==
  pc = "done" =>
    \A k \in 1..Len(result) :
      LET group == result[k]
      IN  /\ group.reportIndex = k - 1
          /\ group.pageCount = Len(group.pages)
          /\ Len(group.pages) > 0
          /\ group.firstPageIndex = group.pages[1].index
          /\ group.lastPageIndex = group.pages[Len(group.pages)].index
          /\ group.firstPageIndex <= group.lastPageIndex
          /\ k < Len(result) =>
               group.lastPageIndex < result[k + 1].firstPageIndex

\* Several groups were returned, one of them with several pages.
C22_Witness ==
  /\ pc = "done"
  /\ Len(result) >= 2
  /\ \E k \in 1..Len(result) : result[k].pageCount >= 2

\* The candidate of the first page of a group.
FirstCandidate(group) == CandidateOf(group.pages[1])

\* C23: for any two consecutive returned groups G and H, either G has
\* exactly maxPagesPerPatient pages, or the first page of H yields a
\* candidate c and either no page of G yields a candidate or
\* _isDifferentPatient(candidate of G's first page, c) is true.
C23_BoundariesJustified ==
  pc = "done" =>
    \A k \in 1..(Len(result) - 1) :
      LET G == result[k]
          H == result[k + 1]
      IN  \/ Len(G.pages) = maxPagesPerPatient
          \/ /\ FirstCandidate(H).t # "null"
             /\ \/ \A i \in 1..Len(G.pages) : CandidateOf(G.pages[i]).t = "null"
                \/ _isDifferentPatient(FirstCandidate(G), FirstCandidate(H))

\* Two groups below the cap were returned, the first with a candidate and
\* the second opened by a different patient.
C23_Witness ==
  /\ pc = "done"
  /\ Len(result) >= 2
  /\ Len(result[1].pages) < maxPagesPerPatient
  /\ FirstCandidate(result[1]).t # "null"
  /\ _isDifferentPatient(FirstCandidate(result[1]), FirstCandidate(result[2]))

\* C24: wherever the accumulator is non-empty the anchor is the candidate
\* of its first page (absent when that page yields none); no page with a
\* candidate is in a group whose first page yields none; and hasPatientData
\* of a group is true exactly when its first page yields a candidate.
C24_AnchorIsFirstPageIdentity ==
  /\ pc \in {"identity", "valve", "finish"} /\ Len(current) > 0 =>
       currentPatientInfo = CandidateOf(current[1])
  /\ \A k \in 1..Len(reports) :
       /\ FirstCandidate(reports[k]).t = "null" =>
            \A i \in 1..Len(reports[k].pages) :
              CandidateOf(reports[k].pages[i]).t = "null"
       /\ reports[k].hasPatientData <=> FirstCandidate(reports[k]).t # "null"
  /\ pc \in {"identity", "valve", "finish"} /\ Len(current) > 0
       /\ CandidateOf(current[1]).t = "null" =>
       \A i \in 1..Len(current) : CandidateOf(current[i]).t = "null"

\* A group opened by a page with a candidate and continued by a page
\* without one was emitted.
C24_Witness ==
  \E k \in 1..Len(reports) :
    /\ Len(reports[k].pages) >= 2
    /\ FirstCandidate(reports[k]).t # "null"
    /\ CandidateOf(reports[k].pages[2]).t = "null"
    /\ reports[k].hasPatientData

\* Every page of the input yields the same candidate (none, for instance),
\* so no page triggers an identity split.
SameCandidateThroughout ==
  \A i, j \in 1..Len(Items) : CandidateOf(Items[i]) = CandidateOf(Items[j])

C26_LeadingPagesSplitOff ==
  [][ /\ pc = "identity"
      /\ currentPatientInfo.t = "null"
      /\ Len(current) > 0
      /\ CandidateOf(PageAtIndex).t # "null"
      => /\ Len(reports') = Len(reports) + 1
         /\ SubSeq(reports', 1, Len(reports)) = reports
         /\ reports'[Len(reports')].pages = current
         /\ reports'[Len(reports')].hasPatientData = FALSE
         /\ current' = << PageAtIndex >>
         /\ currentPatientInfo' = CandidateOf(PageAtIndex) ]_vars

\* After a forced split, a page without identity was emitted as a group of
\* its own when the next page brought a candidate.
C26_Witness ==
  /\ pc = "valve"
  /\ branch = "split"
  /\ Len(reports) >= 2
  /\ Len(reports[Len(reports) - 1].pages) = maxPagesPerPatient
  /\ reports[Len(reports)].hasPatientData = FALSE
  /\ current = << PageAtIndex >>

\* ------------------------------------------------------------------------
\* Two splitters whose indicator keys are set independently
\* ------------------------------------------------------------------------

\* How many calls of setPatientIndicatorKeys are made in all.
MaxKeyCalls == 2

\* The arguments setPatientIndicatorKeys is called with: nothing, a string,
\* an empty array, arrays of labels, an array holding a number.
KeyArgs ==
  { NotArray("undefined"),
    NotArray("string"),
    Array(<<>>),
    Array(<< Str(<<"M","R","N">>) >>),
    Array(<< Str(sPatientNameLabel), Str(<<"D","O","B">>) >>),
    Array(<< Num(sFortyTwo) >>) }

\* The inputs both splitters are given.
KeyInputs ==
  { Array(PagesOf(<< "idA", "idB" >>)),
    Array(PagesOf(<< "idA", "blank", "idB" >>)),
    Array(PagesOf(<< "blank", "nameAnn", "nameBob" >>)),
    Array(PagesOf(<< "tableA" >>)),
    NotArray("undefined") }

\* Line 58: !Array.isArray(keys) || keys.length === 0
KeysRejected(keys) == keys.t # "array" \/ Len(keys.items) = 0

\* Line 61: key.toLowerCase() raises for a key that is not a string.
KeysMapThrows(keys) ==
  \E i \in 1..Len(keys.items) : ~IsString(keys.items[i])

\* Mutant of StoredKeys: the keys are stored before they are checked.
StoredKeysBeforeCheck(this, keys) ==
  [i \in 1..Len(keys.items) |->
     IF IsString(keys.items[i]) THEN Str(ToLowerCase(keys.items[i].s))
     ELSE keys.items[i]]

\* this.patientIndicatorKeys after setPatientIndicatorKeys(keys) (lines
\* 57-62): assigned only if the call is not rejected and the map succeeds.
StoredKeys(this, keys) ==
  IF KeysRejected(keys) \/ KeysMapThrows(keys) THEN this.patientIndicatorKeys
  ELSE [i \in 1..Len(keys.items) |-> Str(ToLowerCase(keys.items[i].s))]

\* A whole call of splitIntoPatientReports: the splitter and the run at
\* its end. Each step is taken as an element of a set, so that it is a
\* value before the next step is taken.
RECURSIVE WholeCall(_, _)
WholeCall(this, run) ==
  IF Ended(run) THEN [this |-> this, run |-> run]
  ELSE CHOOSE end \in {WholeCall(next.this, next.run) :
                         next \in {splitIntoPatientReports(this, run)}} : TRUE

InitKeys ==
  /\ \E cap \in RunCaps : splitters = [s \in {1, 2} |-> DocumentSplitter(cap)]
  /\ keyCall = [count |-> 0, splitter |-> 0, outcome |-> "none"]
  /\ keyInput \in KeyInputs
  /\ keyRuns = [s \in {1, 2} |-> NewRun(keyInput)]
  /\ SplitIdle
  /\ ExtractIdle
  /\ PureIdle
  /\ RunsIdle

\* setPatientIndicatorKeys(keys) on one of the splitters.
setPatientIndicatorKeys ==
  \E s \in {1, 2}, keys \in KeyArgs :
    /\ keyCall.count < MaxKeyCalls
    /\ splitters' =
         [splitters EXCEPT ![s].patientIndicatorKeys = StoredKeys(splitters[s], keys)]
    /\ keyCall' =
         [count |-> keyCall.count + 1,
          splitter |-> s,
          outcome |-> IF KeysRejected(keys) THEN "rejected"
                      ELSE IF KeysMapThrows(keys) THEN "TypeError"
                      ELSE "stored"]
    /\ UNCHANGED << keyInput, keyRuns >>
    /\ UNCHANGED << splitVars, extractVars, pureVars, runVars >>

\* splitIntoPatientReports(keyInput) on one of the splitters, from call to
\* return or throw.
SplitOnSplitter ==
  \E s \in {1, 2} :
    /\ ~Ended(keyRuns[s])
    /\ LET end == WholeCall(splitters[s], keyRuns[s])
       IN  /\ splitters' = [splitters EXCEPT ![s] = end.this]
           /\ keyRuns' = [keyRuns EXCEPT ![s] = end.run]
    /\ UNCHANGED << keyCall, keyInput >>
    /\ UNCHANGED << splitVars, extractVars, pureVars, runVars >>

NextKeys ==
  \/ setPatientIndicatorKeys
  \/ SplitOnSplitter

SpecKeys == InitKeys /\ [][NextKeys]_vars

\* C27: two splitters with the same maxPagesPerPatient return the same
\* grouping (or raise the same error) for the same input, whatever calls of
\* setPatientIndicatorKeys each has had; and a call of
\* setPatientIndicatorKeys rejected for a non-array or empty argument
\* leaves the stored keys as they were.
C27_IndicatorKeysWithoutInfluence ==
  /\ [](Ended(keyRuns[1]) /\ Ended(keyRuns[2]) =>
          /\ keyRuns[1].pc = keyRuns[2].pc
          /\ keyRuns[1].result = keyRuns[2].result
          /\ keyRuns[1].error = keyRuns[2].error)
  /\ [][ keyCall'.count > keyCall.count /\ keyCall'.outcome = "rejected" =>
           \A s \in {1, 2} :
             splitters'[s].patientIndicatorKeys
               = splitters[s].patientIndicatorKeys ]_vars

\* Both splitters returned several groups, one with the keys of the
\* constructor and one with a single stored key, and the last call of
\* setPatientIndicatorKeys was rejected.
C27_Witness ==
  /\ keyRuns[1].pc = "done"
  /\ keyRuns[2].pc = "done"
  /\ Len(keyRuns[1].result) >= 2
  /\ Len(splitters[1].patientIndicatorKeys) = 6
  /\ Len(splitters[2].patientIndicatorKeys) = 1
  /\ keyCall.outcome = "rejected"

====
